---- MODULE Spec2Model ----
(***************************************************************************)
(* Engagement-gated marketing scheduler of the eliza chat clients.         *)
(*                                                                         *)
(* The repository holds several revisions of the same manager.  Each one   *)
(* is modelled as its own state machine over the shared variables below;   *)
(* the variable impl, fixed by the initial state, says which revision a    *)
(* behaviour is about:                                                     *)
(*   "discord"   packages/client-discord/src/messageManager.ts:76-699      *)
(*   "telegram"  packages/client-telegram/src/messageManager.ts:107-576    *)
(*   "tgcounts"  unnamed/part_002:361-743  (groupMessageCounts revision)   *)
(*   "tgdialog"  unnamed/part_005:371-1034 (lastMarketingTimes per dialog) *)
(*   "tgmanager" unnamed/part_000:6-235    (MarketingManager)              *)
(*   "tgbot"     unnamed/part_002:7-359    (TelegramClient)                *)
(*   "dcsimple"  unnamed/part_007:79-606   (fixed six-hour interval)       *)
(* The TelegramUserClient of unnamed/part_001 runs over the "telegram"     *)
(* manager.                                                                *)
(*                                                                         *)
(* Time is Date.now() in milliseconds.  An await is a point where the      *)
(* event loop may run other callbacks, so every asynchronous method is     *)
(* split at its awaits: an execution in flight is a record in the bag      *)
(* firings (marketing) or handlers (inbound messages) whose pc names the   *)
(* await it is suspended at.                                               *)
(***************************************************************************)
EXTENDS Integers, Sequences, FiniteSets, Bags, TLC

VARIABLES
    impl,               \* which revision of the manager this behaviour runs
    now,                \* Date.now()
    marketingEnabled,   \* MessageManager.marketingEnabled
    groupActivities,    \* MessageManager.groupActivities: key -> activity record
    timers,             \* pending setTimeout callbacks: bag of [ch, due, kind]
    firings,            \* sendMarketingMessage executions suspended at an await
    handlers,           \* handleMessage executions suspended at an await
    channelLog,         \* the platform's message history per channel
    lastOutcome,        \* how the sendMarketingMessage execution that just returned ended
    starts,             \* number of startMarketing calls so far
    inbound,            \* number of inbound user messages so far
    messageBatches,     \* MessageManager.messageBatches: chat -> timestamps
    lastResponseTimes,  \* MessageManager.lastResponseTimes: chat -> time
    lastMarketingTimes, \* MessageManager.lastMarketingTimes: group -> time
    groupMessageCounts, \* MessageManager.groupMessageCounts: group -> count
    isProcessingMarketing,  \* MessageManager.isProcessingMarketing: group -> flag
    targetGroups,       \* MessageManager.targetGroups
    messageIntervals,   \* MarketingManager.messageIntervals: group -> timer
    lastMessageTimes,   \* MarketingManager.lastMessageTimes: group -> time
    stopped,            \* stop() has been called and start() not since
    monitoring,         \* TelegramUserClient.start has set the connection monitor
    connected,          \* TelegramUserClient: client.connected
    gaveUp,             \* a reconnectWithBackoff chain has thrown 'Max reconnection attempts reached'
    isConnected,        \* TelegramClient.isConnected
    reconnectAttempts,  \* TelegramClient.reconnectAttempts
    allowedGroups,      \* TelegramUserClient.allowedGroups (TELEGRAM_ALLOWED_GROUPS)
    interestChannels    \* MessageManager.interestChannels: channel -> conversation context

(* Fields that only some revisions have *)
batchVars == <<messageBatches, lastResponseTimes>>
countVars == <<lastMarketingTimes, groupMessageCounts, isProcessingMarketing,
               targetGroups>>

clientVars == <<messageIntervals, lastMessageTimes, stopped, monitoring,
                connected, gaveUp, isConnected, reconnectAttempts>>

vars == <<impl, now, marketingEnabled, groupActivities, timers, firings,
          handlers, channelLog, lastOutcome, starts, inbound, batchVars, countVars,
          clientVars, allowedGroups, interestChannels>>

-----------------------------------------------------------------------------
(* Bounds of the exploration *)

MaxStarts == 1          \* startMarketing calls
MaxInbound == 1         \* inbound user messages
MaxMinutes == 1         \* one-minute clock steps explored after a day boundary
MaxDays == 1            \* days after the start within which the clock moves on to a timer
MaxTicks == 5           \* ticks of the connection monitor
MaxChains == 2          \* reconnectWithBackoff chains, or reconnect callbacks, running at a time
MaxBackoffs == 5        \* failed attempts in a row whose reconnect timers are run
MaxUpdates == 7         \* answered messages whose conversation context is followed
MaxCycles == 1          \* longest timer intervals after the start within which a MarketingManager timer is run
StartDay == 2           \* the run starts StartDay days after the epoch

-----------------------------------------------------------------------------
(* Time *)

OneMinute == 60 * 1000
DAY_MS == 24 * 60 * 60 * 1000
StartTime == StartDay * DAY_MS

-----------------------------------------------------------------------------
(* Helpers on bags and sequences *)

BagAdd(B, e) == B (+) SetToBag({e})
BagRemove(B, e) == B (-) SetToBag({e})
Last(s) == s[Len(s)]
EmptyMap == [k \in {} |-> 0]

NoOutcome == [ch |-> "", result |-> "none"]

(* The fields of the clients and of the MarketingManager as constructed *)
NoClient ==
    /\ messageIntervals = EmptyMap
    /\ lastMessageTimes = EmptyMap
    /\ stopped = FALSE
    /\ monitoring = FALSE
    /\ connected = TRUE
    /\ gaveUp = FALSE
    /\ isConnected = FALSE
    /\ reconnectAttempts = 0
    /\ allowedGroups = {}
    /\ interestChannels = EmptyMap

-----------------------------------------------------------------------------
(* The clock.  The program reads Date.now() only to compare differences     *)
(* with its thresholds, so the clock moves in steps of a minute, or on to   *)
(* the time at which the next timer is due.  A timer that is due runs       *)
(* before the clock moves on.                                               *)

NoTimerDue == \A t \in BagToSet(timers) : t.due > now

TickMinute ==
    /\ (now - StartTime) % DAY_MS < MaxMinutes * OneMinute
    /\ NoTimerDue
    /\ now' = now + OneMinute
    /\ lastOutcome' = NoOutcome
    /\ UNCHANGED <<impl, allowedGroups, interestChannels, clientVars, marketingEnabled, groupActivities, timers, firings,
                   handlers, channelLog, starts, inbound>>
    /\ UNCHANGED <<batchVars, countVars>>

(* Time passes with nothing else happening until the next timer is due *)
NextDue == CHOOSE d \in {t.due : t \in BagToSet(timers)} :
               \A t \in BagToSet(timers) : d <= t.due

AdvanceToTimer ==
    /\ timers # EmptyBag
    /\ NoTimerDue
    /\ now - StartTime < MaxDays * DAY_MS
    /\ now' = NextDue
    /\ lastOutcome' = NoOutcome
    /\ UNCHANGED <<impl, allowedGroups, interestChannels, clientVars, marketingEnabled, groupActivities, timers, firings,
                   handlers, channelLog, starts, inbound>>
    /\ UNCHANGED <<batchVars, countVars>>

(* A sendMarketingMessage execution f returns with the given result. *)
Return(f, result) ==
    /\ firings' = IF BagIn(f, firings) THEN BagRemove(firings, f) ELSE firings
    /\ lastOutcome' = [ch |-> f.ch, result |-> result]

(* A sendMarketingMessage execution f is suspended at its next await. *)
Suspend(f, g) ==
    /\ firings' = BagAdd(BagRemove(firings, f), g)
    /\ lastOutcome' = NoOutcome

UserMessage(t) == [author |-> "user", time |-> t, kind |-> "user", active |-> FALSE]
BotMessage(t, kind, active) == [author |-> "bot", time |-> t, kind |-> kind, active |-> active]

-----------------------------------------------------------------------------
(* Discord MessageManager, packages/client-discord/src/messageManager.ts *)

Discord_MIN_MARKETING_INTERVAL == 2 * 60 * 1000
Discord_REQUIRED_MESSAGES == 3
Discord_MESSAGE_ACTIVITY_WINDOW == 5 * 60 * 1000
Discord_MAX_MESSAGES_PER_DAY == 50

(* The guild's text channels (client.getChannels()) and the configured     *)
(* allow-list DISCORD_ALLOWED_CHANNELS (lower-cased by the client).  The    *)
(* channels of the guild at hand are the channels that channelLog has.      *)
DiscordChannels == {"general"}
DiscordAllowedChannels == {"general", "news"}

(* String.prototype.toLowerCase on the channel names of the model *)
Lower(name) == CASE name = "News" -> "news" [] OTHER -> name

(* channels.find(ch => ch.name.toLowerCase() === channelName.toLowerCase()) *)
Discord_HasChannel(channelName) ==
    \E c \in DOMAIN channelLog : Lower(c) = Lower(channelName)
Discord_FindChannel(channelName) ==
    CHOOSE c \in DOMAIN channelLog : Lower(c) = Lower(channelName)

(* Math.floor(Math.random() * 60 * 1000) + 60 * 1000, for the sampled values *)
(* of Math.floor(Math.random() * 60 * 1000)                                  *)
Discord_RandomOffsets == {0, 59999}
Discord_InitialDelay(r) == r + 60 * 1000

Discord_NewActivity(t) ==
    [lastMarketingTime |-> 0, recentMessages |-> <<>>,
     dailyMarketingCount |-> 0, lastDailyReset |-> t]

(* A faulty isGroupActive: an event exactly MESSAGE_ACTIVITY_WINDOW old and  *)
(* the bot's own events count as well                                       *)
Faulty_isGroupActive(activities, channelId, t) ==
    IF channelId \notin DOMAIN activities THEN FALSE
    ELSE LET recentMessages ==
                 SelectSeq(activities[channelId].recentMessages,
                           LAMBDA msg :
                               (t - msg.time) <= Discord_MESSAGE_ACTIVITY_WINDOW)
         IN  Len(recentMessages) >= Discord_REQUIRED_MESSAGES

(* isGroupActive *)
Discord_isGroupActive(activities, channelId, t) ==
    IF channelId \notin DOMAIN activities THEN FALSE
    ELSE LET recentUserMessages ==
                 SelectSeq(activities[channelId].recentMessages,
                           LAMBDA msg : msg.isUser /\
                               (t - msg.time) < Discord_MESSAGE_ACTIVITY_WINDOW)
         IN  Len(recentUserMessages) >= Discord_REQUIRED_MESSAGES

(* canSendMarketingMessage, the verdict computed from the values it read *)
Discord_CanSendConditions(timeSinceLastMarketing, count, isActive, lastWasOwn) ==
    LET minTimeElapsed ==
            timeSinceLastMarketing >= Discord_MIN_MARKETING_INTERVAL
        timeCondition == minTimeElapsed
        messageCountCondition ==
            count < Discord_MAX_MESSAGES_PER_DAY
        activityCondition ==
            isActive \/ (~lastWasOwn /\
                timeSinceLastMarketing >= Discord_MIN_MARKETING_INTERVAL)
    IN  timeCondition /\ messageCountCondition /\ activityCondition

(* (await channel.messages.fetch({ limit: 1 })).first()?.author.id === userId *)
LastMessageIsOwn(log) == log # <<>> /\ Last(log).author = "bot"

(* A faulty startMarketing: an initial timer for every channel, allowed or  *)
(* not                                                                      *)
Faulty_StartMarketing(r) ==
    /\ impl = "discord"
    /\ starts < MaxStarts
    /\ starts' = starts + 1
    /\ LET names == {Lower(c) : c \in DOMAIN channelLog}
       IN  groupActivities' =
               [k \in DOMAIN groupActivities \cup names |->
                   IF k \in DOMAIN groupActivities THEN groupActivities[k]
                   ELSE Discord_NewActivity(now)]
    /\ marketingEnabled' = TRUE
    /\ timers' = timers (+) SetToBag(
           {[ch |-> Lower(c), due |-> now + Discord_InitialDelay(r), kind |-> "marketing"] :
               c \in DOMAIN channelLog})
    /\ lastOutcome' = NoOutcome
    /\ UNCHANGED <<impl, allowedGroups, interestChannels, clientVars, now, firings, handlers, channelLog, inbound>>
    /\ UNCHANGED <<batchVars, countVars>>

(* startMarketing: activity records for every channel not tracked yet, the  *)
(* flag, and one initial timer per allowed channel                          *)
Discord_StartMarketing(r) ==
    /\ impl = "discord"
    /\ starts < MaxStarts
    /\ starts' = starts + 1
    /\ LET names == {Lower(c) : c \in DOMAIN channelLog}
       IN  groupActivities' =
               [k \in DOMAIN groupActivities \cup names |->
                   IF k \in DOMAIN groupActivities THEN groupActivities[k]
                   ELSE Discord_NewActivity(now)]
    /\ marketingEnabled' = TRUE
    /\ timers' = timers (+) SetToBag(
           {[ch |-> Lower(c), due |-> now + Discord_InitialDelay(r), kind |-> "marketing"] :
               c \in {c \in DOMAIN channelLog : Lower(c) \in DiscordAllowedChannels}})
    /\ lastOutcome' = NoOutcome
    /\ UNCHANGED <<impl, allowedGroups, interestChannels, clientVars, now, firings, handlers, channelLog, inbound>>
    /\ UNCHANGED <<batchVars, countVars>>

(* A faulty stopMarketing: the flag is toggled *)
Faulty_StopMarketing ==
    /\ impl = "discord"
    /\ marketingEnabled \/ lastOutcome.result = "stopped"
    /\ marketingEnabled' = ~marketingEnabled
    /\ lastOutcome' = [ch |-> IF lastOutcome.result = "stopped" THEN "again" ELSE "",
                       result |-> "stopped"]
    /\ UNCHANGED <<impl, allowedGroups, interestChannels, clientVars, now, groupActivities, timers, firings,
                   handlers, channelLog, starts, inbound>>
    /\ UNCHANGED <<batchVars, countVars>>

(* stopMarketing, called while marketing is enabled or directly after a    *)
(* stopMarketing; lastOutcome tells which.                                  *)
Discord_StopMarketing ==
    /\ impl = "discord"
    /\ marketingEnabled \/ lastOutcome.result = "stopped"
    /\ marketingEnabled' = FALSE
    /\ lastOutcome' = [ch |-> IF lastOutcome.result = "stopped" THEN "again" ELSE "",
                       result |-> "stopped"]
    /\ UNCHANGED <<impl, allowedGroups, interestChannels, clientVars, now, groupActivities, timers, firings, handlers,
                   channelLog, starts, inbound>>
    /\ UNCHANGED <<batchVars, countVars>>

(* A timer callback runs sendMarketingMessage: the marketingEnabled test,    *)
(* getChannels() (an async method that awaits nothing, so the caller goes   *)
(* on in the same turn of the event loop), the channel lookup, and          *)
(* canSendMarketingMessage up to await channel.messages.fetch()             *)
Discord_TimerFires(t) ==
    /\ impl = "discord"
    /\ BagIn(t, timers)
    /\ t.due <= now
    /\ timers' = BagRemove(timers, t)
    /\ LET f == [ch |-> t.ch, pc |-> "fetch", timeSince |-> 0, active |-> FALSE]
       IN  IF ~marketingEnabled
           THEN Return(f, "disabled") /\ UNCHANGED groupActivities
           ELSE IF ~Discord_HasChannel(t.ch)
           THEN Return(f, "notFound") /\ UNCHANGED groupActivities
           ELSE IF t.ch \notin DOMAIN groupActivities
           THEN Return(f, "denied") /\ UNCHANGED groupActivities
           ELSE LET activity == groupActivities[t.ch]
                    reset == now - activity.lastDailyReset >= DAY_MS
                IN  /\ groupActivities' =
                           [groupActivities EXCEPT ![t.ch] =
                               IF reset
                               THEN [activity EXCEPT !.dailyMarketingCount = 0,
                                                     !.lastDailyReset = now]
                               ELSE activity]
                    /\ firings' = BagAdd(firings,
                           [f EXCEPT !.timeSince = now - activity.lastMarketingTime])
                    /\ lastOutcome' = NoOutcome
    /\ UNCHANGED <<impl, allowedGroups, interestChannels, clientVars, now, marketingEnabled, handlers, channelLog, starts,
                   inbound>>
    /\ UNCHANGED <<batchVars, countVars>>

(* messages.fetch() resolved or threw: the rest of canSendMarketingMessage  *)
Discord_CanSendEnd(f, fetched) ==
    /\ impl = "discord"
    /\ BagIn(f, firings)
    /\ f.pc = "fetch"
    /\ LET activity == groupActivities[f.ch]
           lastMessageWasMarketing ==
               LastMessageIsOwn(channelLog[Discord_FindChannel(f.ch)])
           isActive == Discord_isGroupActive(groupActivities, f.ch, now)
           canSend == fetched /\ Discord_CanSendConditions(f.timeSince,
               activity.dailyMarketingCount, isActive, lastMessageWasMarketing)
       IN  IF canSend
           THEN Suspend(f, [f EXCEPT !.pc = "generate", !.timeSince = 0,
                                     !.active = isActive])
           ELSE Return(f, "denied")
    /\ UNCHANGED <<impl, allowedGroups, interestChannels, clientVars, now, marketingEnabled, groupActivities, timers,
                   handlers, channelLog, starts, inbound>>
    /\ UNCHANGED <<batchVars, countVars>>

(* generateMarketingMessage() resolved with a text or with null *)
Discord_GenerateDone(f, message) ==
    /\ impl = "discord"
    /\ BagIn(f, firings)
    /\ f.pc = "generate"
    /\ IF message THEN Suspend(f, [f EXCEPT !.pc = "send"])
                  ELSE Return(f, "generationFailed")
    /\ UNCHANGED <<impl, allowedGroups, interestChannels, clientVars, now, marketingEnabled, groupActivities, timers,
                   handlers, channelLog, starts, inbound>>
    /\ UNCHANGED <<batchVars, countVars>>

(* A faulty record of a send: the send is counted twice *)
Faulty_RecordSend(activity, t) ==
    [activity EXCEPT !.lastMarketingTime = t,
                     !.recentMessages = Append(@, [time |-> t, isUser |-> FALSE]),
                     !.dailyMarketingCount = @ + 2]

(* What a confirmed send records in the channel's activity *)
Discord_RecordSend(activity, t) ==
    [activity EXCEPT !.lastMarketingTime = t,
                     !.recentMessages = Append(@, [time |-> t, isUser |-> FALSE]),
                     !.dailyMarketingCount = @ + 1]

(* A faulty end of the send: the send is recorded whether or not            *)
(* sendMessage succeeded                                                    *)
Faulty_SendDone(f, sent) ==
    /\ impl = "discord"
    /\ BagIn(f, firings)
    /\ f.pc = "send"
    /\ groupActivities' =
           IF f.ch \in DOMAIN groupActivities
           THEN [groupActivities EXCEPT ![f.ch] = Discord_RecordSend(@, now)]
           ELSE groupActivities
    /\ IF sent
       THEN /\ channelLog' = [channelLog EXCEPT ![Discord_FindChannel(f.ch)] =
                   Append(@, BotMessage(now, "marketing", f.active))]
            /\ timers' = BagAdd(timers,
                   [ch |-> f.ch, due |-> now + Discord_MIN_MARKETING_INTERVAL,
                    kind |-> "marketing"])
            /\ Return(f, "sent")
       ELSE /\ Return(f, "sendFailed")
            /\ UNCHANGED <<channelLog, timers>>
    /\ UNCHANGED <<impl, allowedGroups, interestChannels, clientVars, now, marketingEnabled, handlers, starts, inbound>>
    /\ UNCHANGED <<batchVars, countVars>>

(* await setTyping(), the typing delay and await sendMessage(): nothing is   *)
(* read or written between them, so they are one suspension, left when      *)
(* sendMessage resolves (sent) or when setTyping or sendMessage throws      *)
Discord_SendDone(f, sent) ==
    /\ impl = "discord"
    /\ BagIn(f, firings)
    /\ f.pc = "send"
    /\ IF sent
       THEN /\ channelLog' = [channelLog EXCEPT ![Discord_FindChannel(f.ch)] =
                   Append(@, BotMessage(now, "marketing", f.active))]
            /\ groupActivities' =
                   IF f.ch \in DOMAIN groupActivities
                   THEN [groupActivities EXCEPT ![f.ch] = Discord_RecordSend(@, now)]
                   ELSE groupActivities
            /\ timers' = BagAdd(timers,
                   [ch |-> f.ch, due |-> now + Discord_MIN_MARKETING_INTERVAL,
                    kind |-> "marketing"])
            /\ Return(f, "sent")
       ELSE /\ Return(f, "sendFailed")
            /\ UNCHANGED <<channelLog, groupActivities, timers>>
    /\ UNCHANGED <<impl, allowedGroups, interestChannels, clientVars, now, marketingEnabled, handlers, starts, inbound>>
    /\ UNCHANGED <<batchVars, countVars>>

(* updateChannelActivity: the record is looked up by the channel's name as is *)
Discord_updateChannelActivity(activities, channelName, t) ==
    IF channelName \in DOMAIN activities
    THEN [activities EXCEPT ![channelName].recentMessages =
             Append(@, [isUser |-> TRUE, time |-> t])]
    ELSE activities

(* A user's message arrives in an allowed channel: the client's             *)
(* messageCreate handler and handleMessage.  Either shouldRespondToMessage  *)
(* says no and the message is recorded as channel activity, or a response   *)
(* is generated and, unless it is empty, sent by the client.  Generating    *)
(* the response reads and writes nothing the marketing path uses, so the    *)
(* handler is one step.                                                     *)
Discord_HandleMessage(c, shouldRespond, response) ==
    /\ impl = "discord"
    /\ inbound < MaxInbound
    /\ Lower(c) \in DiscordAllowedChannels
    /\ inbound' = inbound + 1
    /\ channelLog' = [channelLog EXCEPT ![c] =
           IF shouldRespond /\ response
           THEN Append(Append(@, UserMessage(now)), BotMessage(now, "reply", FALSE))
           ELSE Append(@, UserMessage(now))]
    /\ groupActivities' =
           IF shouldRespond THEN groupActivities
           ELSE Discord_updateChannelActivity(groupActivities, c, now)
    /\ lastOutcome' = NoOutcome
    /\ UNCHANGED <<impl, allowedGroups, interestChannels, clientVars, now, marketingEnabled, timers, firings, handlers, starts>>
    /\ UNCHANGED <<batchVars, countVars>>

(* The state after construction, and the states of a manager that has been  *)
(* marketing since startMarketing: k sends so far, two minutes apart, each  *)
(* one minute after a user message the bot did not answer; one more such    *)
(* user message a minute ago; the timer armed by the last send is due now.  *)
(* All of it lies within the last day.                                      *)
WarmCounts == {Discord_MAX_MESSAGES_PER_DAY - 2, Discord_MAX_MESSAGES_PER_DAY - 1}
Discord_WarmSendTime(k, i) ==
    StartTime - Discord_MIN_MARKETING_INTERVAL * (k - i + 1)
Discord_WarmActivity(k) ==
    [lastMarketingTime |-> Discord_WarmSendTime(k, k),
     recentMessages |->
        [j \in 1..(2 * k + 1) |->
            IF j = 2 * k + 1
            THEN [isUser |-> TRUE, time |-> StartTime - OneMinute]
            ELSE IF j % 2 = 1
            THEN [isUser |-> TRUE,
                  time |-> Discord_WarmSendTime(k, (j + 1) \div 2) - OneMinute]
            ELSE [time |-> Discord_WarmSendTime(k, j \div 2), isUser |-> FALSE]],
     dailyMarketingCount |-> k,
     lastDailyReset |-> Discord_WarmSendTime(k, 1) - OneMinute]
Discord_WarmLog(k) ==
    [j \in 1..(2 * k + 1) |->
        IF j = 2 * k + 1 THEN UserMessage(StartTime - OneMinute)
        ELSE IF j % 2 = 1
        THEN UserMessage(Discord_WarmSendTime(k, (j + 1) \div 2) - OneMinute)
        ELSE BotMessage(Discord_WarmSendTime(k, j \div 2), "marketing", FALSE)]

InitDiscord ==
    /\ impl = "discord"
    /\ NoClient
    /\ now = StartTime
    /\ \/ /\ groupActivities = EmptyMap
          /\ channelLog = [c \in DiscordChannels |-> <<>>]
          /\ marketingEnabled = FALSE
          /\ timers = EmptyBag
       \/ \E k \in WarmCounts :
          /\ groupActivities = [c \in {"general"} |-> Discord_WarmActivity(k)]
          /\ channelLog = [c \in DiscordChannels |-> Discord_WarmLog(k)]
          /\ marketingEnabled = TRUE
          /\ timers = SetToBag({[ch |-> "general",
                 due |-> Discord_WarmSendTime(k, k) +
                         Discord_MIN_MARKETING_INTERVAL,
                 kind |-> "marketing"]})
    /\ firings = EmptyBag
    /\ handlers = EmptyBag
    /\ lastOutcome = NoOutcome
    /\ starts = 0
    /\ inbound = 0
    /\ messageBatches = EmptyMap
    /\ lastResponseTimes = EmptyMap
    /\ lastMarketingTimes = EmptyMap
    /\ groupMessageCounts = EmptyMap
    /\ isProcessingMarketing = EmptyMap
    /\ targetGroups = {}

NextDiscord ==
    \/ \E r \in Discord_RandomOffsets : Discord_StartMarketing(r)
    \/ Discord_StopMarketing
    \/ \E t \in BagToSet(timers) : Discord_TimerFires(t)
    \/ \E f \in BagToSet(firings), fetched \in BOOLEAN : Discord_CanSendEnd(f, fetched)
    \/ \E f \in BagToSet(firings), message \in BOOLEAN : Discord_GenerateDone(f, message)
    \/ \E f \in BagToSet(firings), sent \in BOOLEAN : Discord_SendDone(f, sent)
    \/ \E c \in DOMAIN channelLog, shouldRespond \in BOOLEAN, response \in BOOLEAN :
           Discord_HandleMessage(c, shouldRespond, response)
    \/ TickMinute

SpecDiscord == InitDiscord /\ [][NextDiscord]_vars

(* The manager after construction in a guild with two text channels: one   *)
(* named with an upper-case letter, whose lower-cased name is in the        *)
(* allow-list, and one that is not in the allow-list                        *)
InitNews ==
    /\ impl = "discord"
    /\ NoClient
    /\ now = StartTime
    /\ groupActivities = EmptyMap
    /\ channelLog = [c \in {"News", "random"} |-> <<>>]
    /\ marketingEnabled = FALSE
    /\ timers = EmptyBag
    /\ firings = EmptyBag
    /\ handlers = EmptyBag
    /\ lastOutcome = NoOutcome
    /\ starts = 0
    /\ inbound = 0
    /\ messageBatches = EmptyMap
    /\ lastResponseTimes = EmptyMap
    /\ lastMarketingTimes = EmptyMap
    /\ groupMessageCounts = EmptyMap
    /\ isProcessingMarketing = EmptyMap
    /\ targetGroups = {}

SpecNews == InitNews /\ [][NextDiscord]_vars

(* The conversation context of the reply path.  The scheduler reads none of *)
(* it, and the actions above leave it out; it is followed on its own.       *)

(* A faulty updateChatState: the oldest entries are kept *)
Faulty_updateChatState(chats, channelId, message, response, t) ==
    LET old == IF channelId \in DOMAIN chats THEN chats[channelId]
               ELSE [lastMessageSent |-> t, messages |-> <<>>]
        pushed == Append(Append(old.messages, message), response)
        maxMessages == 10
    IN  [k \in DOMAIN chats \cup {channelId} |->
         IF k = channelId
         THEN [lastMessageSent |-> t,
                messages |-> IF Len(pushed) > maxMessages
                             THEN SubSeq(pushed, 1, maxMessages)
                             ELSE pushed]
         ELSE chats[k]]

(* updateChatState: the user's message and the response are pushed, and     *)
(* messages.slice(-maxMessages) is kept when there are more than maxMessages *)
Discord_updateChatState(chats, channelId, message, response, t) ==
    LET old == IF channelId \in DOMAIN chats THEN chats[channelId]
               ELSE [lastMessageSent |-> t, messages |-> <<>>]
        pushed == Append(Append(old.messages, message), response)
        maxMessages == 10
    IN  [k \in DOMAIN chats \cup {channelId} |->
         IF k = channelId
         THEN [lastMessageSent |-> t,
                messages |-> IF Len(pushed) > maxMessages
                             THEN SubSeq(pushed, Len(pushed) - maxMessages + 1,
                                         Len(pushed))
                             ELSE pushed]
         ELSE chats[k]]

(* generateResponse has a response to the message of userName, the          *)
(* inbound'th message answered: it calls updateChatState(message, response) *)
Discord_Respond(c, userName) ==
    /\ impl = "discord"
    /\ inbound < MaxUpdates
    /\ inbound' = inbound + 1
    /\ interestChannels' = Discord_updateChatState(interestChannels, c,
           [userName |-> userName, text |-> inbound'],
           [userName |-> "bot", text |-> inbound'], now)
    /\ lastOutcome' = NoOutcome
    /\ UNCHANGED <<impl, allowedGroups, clientVars, now, marketingEnabled, groupActivities,
                   timers, firings, handlers, channelLog, starts, batchVars, countVars>>

SpecContext ==
    /\ InitDiscord
    /\ [][\E c \in DiscordChannels, userName \in {"alice", "bob"} :
              Discord_Respond(c, userName)]_vars

(* A manager whose startMarketing created the channel's record a minute     *)
(* less than a day ago and whose sends, one short of the daily maximum,     *)
(* all fall into the last hours of that day: the channel was silent until   *)
(* then and a later startMarketing (the client's next 'ready') armed the    *)
(* timer again.  The daily reset is due within this run, in which           *)
(* startMarketing is not called once more.                                  *)
InitAged ==
    /\ impl = "discord"
    /\ NoClient
    /\ now = StartTime
    /\ groupActivities =
           [c \in {"general"} |->
               [Discord_WarmActivity(Discord_MAX_MESSAGES_PER_DAY - 1)
                   EXCEPT !.lastDailyReset = StartTime - DAY_MS + OneMinute]]
    /\ channelLog = [c \in DiscordChannels |-> Discord_WarmLog(Discord_MAX_MESSAGES_PER_DAY - 1)]
    /\ marketingEnabled = TRUE
    /\ timers = SetToBag({[ch |-> "general", due |-> StartTime, kind |-> "marketing"]})
    /\ firings = EmptyBag
    /\ handlers = EmptyBag
    /\ lastOutcome = NoOutcome
    /\ starts = MaxStarts
    /\ inbound = 0
    /\ messageBatches = EmptyMap
    /\ lastResponseTimes = EmptyMap
    /\ lastMarketingTimes = EmptyMap
    /\ groupMessageCounts = EmptyMap
    /\ isProcessingMarketing = EmptyMap
    /\ targetGroups = {}

(* The manager as constructed, or the aged one *)
InitQuota == (InitDiscord /\ timers = EmptyBag) \/ InitAged

(* The manager's marketing and message handling, the clock moving from one  *)
(* timer to the next                                                        *)
NextQuota ==
    \/ \E r \in Discord_RandomOffsets : Discord_StartMarketing(r)
    \/ \E t \in BagToSet(timers) : Discord_TimerFires(t)
    \/ \E f \in BagToSet(firings), fetched \in BOOLEAN : Discord_CanSendEnd(f, fetched)
    \/ \E f \in BagToSet(firings), message \in BOOLEAN : Discord_GenerateDone(f, message)
    \/ \E f \in BagToSet(firings), sent \in BOOLEAN : Discord_SendDone(f, sent)
    \/ \E c \in DiscordChannels, shouldRespond \in BOOLEAN, response \in BOOLEAN :
           Discord_HandleMessage(c, shouldRespond, response)
    \/ AdvanceToTimer

SpecQuota == InitQuota /\ [][NextQuota]_vars

-----------------------------------------------------------------------------
(* Telegram MessageManager, packages/client-telegram/src/messageManager.ts *)

Telegram_MIN_MARKETING_INTERVAL == 2 * 60 * 1000
Telegram_REQUIRED_MESSAGES == 3
Telegram_MESSAGE_ACTIVITY_WINDOW == 5 * 60 * 1000
Telegram_MAX_MESSAGES_PER_DAY == 4
Telegram_MIN_MESSAGE_INTERVAL == 5000
Telegram_MESSAGE_BATCH_WINDOW == 10000
Telegram_MAX_BATCH_SIZE == 5
Telegram_FETCH_LIMIT == 100

(* Math.floor(Math.random() * (MAX_MARKETING_INTERVAL - MIN_MARKETING_INTERVAL)  *)
(* + MIN_MARKETING_INTERVAL) with both class constants six hours                 *)
Telegram_FirstDelay == 6 * 60 * 60 * 1000

(* The dialogs whose title is in TELEGRAM_ALLOWED_GROUPS, by dialog id *)
TelegramGroups == {"g1"}

(* map.get(key) || 0 *)
GetOrZero(map, key) == IF key \in DOMAIN map THEN map[key] ELSE 0

(* map.set(key, value) *)
MapSet(map, key, value) ==
    [k \in DOMAIN map \cup {key} |-> IF k = key THEN value ELSE map[k]]

(* isGroupActive *)
Telegram_isGroupActive(activities, groupId, t) ==
    IF groupId \notin DOMAIN activities THEN FALSE
    ELSE LET recentUserMessages ==
                 SelectSeq(activities[groupId].recentMessages,
                           LAMBDA msg : msg.isUser /\
                               (t - msg.time) < Telegram_MESSAGE_ACTIVITY_WINDOW)
         IN  Len(recentUserMessages) >= Telegram_REQUIRED_MESSAGES

(* updateGroupActivity: the record is created on the first message, the new *)
(* event is added, and events that left the activity window are dropped     *)
Telegram_updateGroupActivity(activities, groupId, t) ==
    LET old == IF groupId \in DOMAIN activities THEN activities[groupId]
               ELSE [lastMarketingTime |-> 0, recentMessages |-> <<>>,
                     lastDailyReset |-> t]
        pushed == Append(old.recentMessages, [isUser |-> TRUE, time |-> t])
        kept == SelectSeq(pushed,
                    LAMBDA msg : (t - msg.time) < Telegram_MESSAGE_ACTIVITY_WINDOW)
    IN  MapSet(activities, groupId,
               [old EXCEPT !.recentMessages = kept,
                           !.lastDailyReset =
                               IF t - @ > DAY_MS THEN t ELSE @])

(* getMessages(dialog.entity, { limit: 100, fromUser: own id }): the bot's  *)
(* own messages in the dialog, newest first                                 *)
Reverse(s) == [i \in 1..Len(s) |-> s[Len(s) + 1 - i]]
Telegram_OwnMessages(log) ==
    LET own == Reverse(SelectSeq(log, LAMBDA m : m.author = "bot"))
    IN  IF Len(own) > Telegram_FETCH_LIMIT
        THEN SubSeq(own, 1, Telegram_FETCH_LIMIT) ELSE own

(* (now - msg.date.getTime() * 1000) < 24 * 60 * 60 * 1000, for a date given *)
(* by its milliseconds d: 1000 * d > t - DAY_MS, computed without the product *)
Telegram_WithinLastDay(t, d) == d > (t - DAY_MS) \div 1000

(* canSendMarketingMessage, the verdict computed from the values it read *)
Telegram_CanSendConditions(timeSinceLastMarketing, messages, isActive, t) ==
    LET minTimeElapsed ==
            timeSinceLastMarketing >= Telegram_MIN_MARKETING_INTERVAL
        marketingMessagesLast24h ==
            Len(SelectSeq(messages, LAMBDA msg : Telegram_WithinLastDay(t, msg.time)))
        lastMessageWasMarketing == messages # <<>>
    IN  /\ minTimeElapsed
        /\ marketingMessagesLast24h < Telegram_MAX_MESSAGES_PER_DAY
        /\ (isActive \/ (~lastMessageWasMarketing /\
               timeSinceLastMarketing >= Telegram_MIN_MARKETING_INTERVAL))

(* startMarketing and initializeGroupMarketing: for every target group,     *)
(* getDialogs() finds the group (the groups in found) and its first timer   *)
(* is armed, or it does not, or throws, which is caught per group, and no   *)
(* timer is armed for that group; the flag is set either way.  The groups   *)
(* are those of channelLog.                                                 *)
Telegram_StartMarketing(found) ==
    /\ impl = "telegram"
    /\ starts < MaxStarts
    /\ starts' = starts + 1
    /\ timers' = timers (+) SetToBag(
                     {[ch |-> g, due |-> now + Telegram_FirstDelay,
                       kind |-> "marketing"] : g \in found})
    /\ marketingEnabled' = TRUE
    /\ lastOutcome' = NoOutcome
    /\ UNCHANGED <<impl, allowedGroups, interestChannels, clientVars, now, groupActivities, firings, handlers, channelLog,
                   inbound, batchVars, countVars>>

(* stopMarketing *)
Telegram_StopMarketing ==
    /\ impl = "telegram"
    /\ marketingEnabled
    /\ marketingEnabled' = FALSE
    /\ lastOutcome' = NoOutcome
    /\ UNCHANGED <<impl, allowedGroups, interestChannels, clientVars, now, groupActivities, timers, firings, handlers,
                   channelLog, starts, inbound, batchVars, countVars>>

(* A marketing timer runs sendMarketingMessage: the marketingEnabled test   *)
(* and canSendMarketingMessage up to await client.getMessages()             *)
Telegram_TimerFires(t) ==
    /\ impl = "telegram"
    /\ BagIn(t, timers)
    /\ t.kind = "marketing"
    /\ t.due <= now
    /\ timers' = BagRemove(timers, t)
    /\ LET f == [ch |-> t.ch, pc |-> "fetch", timeSince |-> 0, at |-> now,
                 active |-> FALSE]
       IN  IF ~marketingEnabled THEN Return(f, "disabled")
           ELSE IF t.ch \notin DOMAIN groupActivities THEN Return(f, "denied")
           ELSE /\ firings' = BagAdd(firings,
                       [f EXCEPT !.timeSince =
                           now - groupActivities[t.ch].lastMarketingTime])
                /\ lastOutcome' = NoOutcome
    /\ UNCHANGED <<impl, allowedGroups, interestChannels, clientVars, now, marketingEnabled, groupActivities, handlers,
                   channelLog, starts, inbound, batchVars, countVars>>

(* getMessages() resolved or rejected: the rest of canSendMarketingMessage. *)
(* msg.date is what the client library returns: with a number the filter    *)
(* callback throws on the first message (a number has no getTime), with a   *)
(* Date it is evaluated.  An exception leaves sendMarketingMessage through  *)
(* its catch.                                                               *)
Telegram_FetchOutcomes == {"rejected", "numberDates", "dateObjects"}
Telegram_CanSendEnd(f, fetched) ==
    /\ impl = "telegram"
    /\ BagIn(f, firings)
    /\ f.pc = "fetch"
    /\ LET messages == Telegram_OwnMessages(channelLog[f.ch])
           isActive == Telegram_isGroupActive(groupActivities, f.ch, now)
           threw == \/ fetched = "rejected"
                    \/ fetched = "numberDates" /\ messages # <<>>
           canSend == Telegram_CanSendConditions(f.timeSince, messages,
                                                 isActive, f.at)
       IN  IF threw THEN Return(f, "checkFailed")
           ELSE IF canSend
           THEN Suspend(f, [f EXCEPT !.pc = "generate", !.timeSince = 0,
                                     !.at = 0, !.active = isActive])
           ELSE Return(f, "denied")
    /\ UNCHANGED <<impl, allowedGroups, interestChannels, clientVars, now, marketingEnabled, groupActivities, timers,
                   handlers, channelLog, starts, inbound, batchVars, countVars>>

(* generateMarketingMessage() resolved with a text or with null *)
Telegram_GenerateDone(f, message) ==
    /\ impl = "telegram"
    /\ BagIn(f, firings)
    /\ f.pc = "generate"
    /\ IF message THEN Suspend(f, [f EXCEPT !.pc = "send"])
                  ELSE Return(f, "generationFailed")
    /\ UNCHANGED <<impl, allowedGroups, interestChannels, clientVars, now, marketingEnabled, groupActivities, timers,
                   handlers, channelLog, starts, inbound, batchVars, countVars>>

(* What a confirmed send records in the group's activity *)
Telegram_RecordSend(activity, t) ==
    [activity EXCEPT !.lastMarketingTime = t,
                     !.recentMessages = Append(@, [time |-> t, isUser |-> FALSE])]

(* A faulty end of the send: a failed send cancels every pending timer *)
Faulty_TelegramSendDone(f, sent) ==
    /\ impl = "telegram"
    /\ BagIn(f, firings)
    /\ f.pc = "send"
    /\ IF sent
       THEN /\ channelLog' = [channelLog EXCEPT ![f.ch] =
                   Append(@, BotMessage(now, "marketing", f.active))]
            /\ groupActivities' =
                   IF f.ch \in DOMAIN groupActivities
                   THEN [groupActivities EXCEPT ![f.ch] = Telegram_RecordSend(@, now)]
                   ELSE groupActivities
            /\ timers' = BagAdd(timers,
                   [ch |-> f.ch, due |-> now + Telegram_MIN_MARKETING_INTERVAL,
                    kind |-> "marketing"])
            /\ Return(f, "sent")
       ELSE /\ Return(f, "sendFailed")
            /\ timers' = EmptyBag
            /\ UNCHANGED <<channelLog, groupActivities>>
    /\ UNCHANGED <<impl, allowedGroups, interestChannels, clientVars, now, marketingEnabled, handlers, starts, inbound,
                   batchVars, countVars>>

(* await setTyping(), the typing delay and await sendMessage(): left when   *)
(* sendMessage resolves (sent) or when setTyping or sendMessage throws      *)
Telegram_SendDone(f, sent) ==
    /\ impl = "telegram"
    /\ BagIn(f, firings)
    /\ f.pc = "send"
    /\ IF sent
       THEN /\ channelLog' = [channelLog EXCEPT ![f.ch] =
                   Append(@, BotMessage(now, "marketing", f.active))]
            /\ groupActivities' =
                   IF f.ch \in DOMAIN groupActivities
                   THEN [groupActivities EXCEPT ![f.ch] = Telegram_RecordSend(@, now)]
                   ELSE groupActivities
            /\ timers' = BagAdd(timers,
                   [ch |-> f.ch, due |-> now + Telegram_MIN_MARKETING_INTERVAL,
                    kind |-> "marketing"])
            /\ Return(f, "sent")
       ELSE /\ Return(f, "sendFailed")
            /\ UNCHANGED <<channelLog, groupActivities, timers>>
    /\ UNCHANGED <<impl, allowedGroups, interestChannels, clientVars, now, marketingEnabled, handlers, starts, inbound,
                   batchVars, countVars>>

(* clearTimeout(batch.batchTimeout): the chat's pending batch timer, if any *)
Telegram_ClearBatchTimer(B, chatId) ==
    [t \in {x \in BagToSet(B) : ~(x.kind = "batch" /\ x.ch = chatId)} |-> B[t]]

(* A user's message arrives: handleMessage and shouldProcessMessage.  Within *)
(* MIN_MESSAGE_INTERVAL of the last response the message is dropped.         *)
(* Otherwise it joins the chat's batch; the first message of a batch arms    *)
(* the batch timer; the message that fills the batch runs processBatch,      *)
(* which is not awaited and records the activity before its first await, and *)
(* then handleMessageInternal on the message itself, which records it again  *)
(* and generates the response.  processBatch never gets to clear the batch:  *)
(* its synthetic message has no sender (from: batch.messages[0].from is      *)
(* undefined), so handleMessageInternal throws at message.from.username      *)
(* after updateGroupActivity.                                                *)
Telegram_HandleMessage(c, shouldRespond, response) ==
    /\ impl = "telegram"
    /\ inbound < MaxInbound
    /\ inbound' = inbound + 1
    /\ LET tooSoon == now - GetOrZero(lastResponseTimes, c)
                          < Telegram_MIN_MESSAGE_INTERVAL
           old == IF c \in DOMAIN messageBatches THEN messageBatches[c] ELSE <<>>
           batch == SelectSeq(Append(old, now),
                        LAMBDA ts : now - ts < Telegram_MESSAGE_BATCH_WINDOW)
           isLastInBatch == Len(batch) >= Telegram_MAX_BATCH_SIZE
           process == ~tooSoon /\ isLastInBatch
           replied == process /\ response /\ shouldRespond
       IN  /\ messageBatches' =
                  IF tooSoon THEN messageBatches ELSE MapSet(messageBatches, c, batch)
           /\ timers' =
                  IF tooSoon THEN timers
                  ELSE IF Len(batch) = 1
                  THEN BagAdd(Telegram_ClearBatchTimer(timers, c),
                           [ch |-> c, due |-> now + Telegram_MESSAGE_BATCH_WINDOW,
                            kind |-> "batch"])
                  ELSE IF isLastInBatch THEN Telegram_ClearBatchTimer(timers, c)
                  ELSE timers
           /\ groupActivities' =
                  IF process
                  THEN Telegram_updateGroupActivity(
                           Telegram_updateGroupActivity(groupActivities, c, now),
                           c, now)
                  ELSE groupActivities
           /\ lastResponseTimes' =
                  IF replied THEN MapSet(lastResponseTimes, c, now)
                  ELSE lastResponseTimes
           /\ channelLog' = [channelLog EXCEPT ![c] =
                  IF replied
                  THEN Append(Append(@, UserMessage(now)),
                              BotMessage(now, "reply", FALSE))
                  ELSE Append(@, UserMessage(now))]
    /\ lastOutcome' = NoOutcome
    /\ UNCHANGED <<impl, allowedGroups, interestChannels, clientVars, now, marketingEnabled, firings, handlers, starts,
                   countVars>>

(* The batch timer runs processBatch: the batch is recorded as one event of  *)
(* activity, at the time it is processed, and is left as it is               *)
Telegram_BatchTimerFires(t) ==
    /\ impl = "telegram"
    /\ BagIn(t, timers)
    /\ t.kind = "batch"
    /\ t.due <= now
    /\ timers' = BagRemove(timers, t)
    /\ groupActivities' =
           IF t.ch \in DOMAIN messageBatches /\ messageBatches[t.ch] # <<>>
           THEN Telegram_updateGroupActivity(groupActivities, t.ch, now)
           ELSE groupActivities
    /\ lastOutcome' = NoOutcome
    /\ UNCHANGED <<impl, allowedGroups, interestChannels, clientVars, now, marketingEnabled, firings, handlers, channelLog,
                   starts, inbound, batchVars, countVars>>

(* The state after construction, and the state of a manager that has been   *)
(* marketing for a while: a first marketing message went out two minutes    *)
(* ago, the timer it armed is due now, and two batches of user messages     *)
(* were processed three minutes and one minute ago.                         *)
Telegram_WarmActivity ==
    [lastMarketingTime |-> StartTime - 2 * OneMinute,
     recentMessages |-> << [isUser |-> TRUE, time |-> StartTime - 3 * OneMinute],
                           [time |-> StartTime - 2 * OneMinute, isUser |-> FALSE],
                           [isUser |-> TRUE, time |-> StartTime - OneMinute] >>,
     lastDailyReset |-> StartTime - 3 * OneMinute]
Telegram_WarmLog ==
    << UserMessage(StartTime - 3 * OneMinute - Telegram_MESSAGE_BATCH_WINDOW),
       BotMessage(StartTime - 2 * OneMinute, "marketing", FALSE),
       UserMessage(StartTime - OneMinute - Telegram_MESSAGE_BATCH_WINDOW) >>

InitTelegram ==
    /\ impl = "telegram"
    /\ NoClient
    /\ now = StartTime
    /\ \/ /\ groupActivities = EmptyMap
          /\ channelLog = [g \in TelegramGroups |-> <<>>]
          /\ messageBatches = EmptyMap
          /\ marketingEnabled = FALSE
          /\ timers = EmptyBag
       \/ /\ groupActivities = [g \in {"g1"} |-> Telegram_WarmActivity]
          /\ channelLog = [g \in TelegramGroups |-> Telegram_WarmLog]
          /\ messageBatches = [g \in {"g1"} |->
                 << StartTime - OneMinute - Telegram_MESSAGE_BATCH_WINDOW >>]
          /\ marketingEnabled = TRUE
          /\ timers = SetToBag({[ch |-> "g1", due |-> StartTime,
                                 kind |-> "marketing"]})
    /\ firings = EmptyBag
    /\ handlers = EmptyBag
    /\ lastOutcome = NoOutcome
    /\ starts = 0
    /\ inbound = 0
    /\ lastResponseTimes = EmptyMap
    /\ lastMarketingTimes = EmptyMap
    /\ groupMessageCounts = EmptyMap
    /\ isProcessingMarketing = EmptyMap
    /\ targetGroups = {}

NextTelegram ==
    \/ \E found \in SUBSET DOMAIN channelLog : Telegram_StartMarketing(found)
    \/ Telegram_StopMarketing
    \/ \E t \in BagToSet(timers) : Telegram_TimerFires(t)
    \/ \E f \in BagToSet(firings), fetched \in Telegram_FetchOutcomes :
           Telegram_CanSendEnd(f, fetched)
    \/ \E f \in BagToSet(firings), message \in BOOLEAN : Telegram_GenerateDone(f, message)
    \/ \E f \in BagToSet(firings), sent \in BOOLEAN : Telegram_SendDone(f, sent)
    \/ \E c \in DOMAIN channelLog, shouldRespond \in BOOLEAN, response \in BOOLEAN :
           Telegram_HandleMessage(c, shouldRespond, response)
    \/ \E t \in BagToSet(timers) : Telegram_BatchTimerFires(t)
    \/ TickMinute

SpecTelegram == InitTelegram /\ [][NextTelegram]_vars

(* The same manager followed over the hours until its timers are due *)
SpecDormant == InitTelegram /\ [][NextTelegram \/ AdvanceToTimer]_vars

(* The manager marketing in two groups, each as in the warm state above *)
InitPair ==
    /\ impl = "telegram"
    /\ NoClient
    /\ now = StartTime
    /\ groupActivities = [g \in {"g1", "g2"} |-> Telegram_WarmActivity]
    /\ channelLog = [g \in {"g1", "g2"} |-> Telegram_WarmLog]
    /\ messageBatches = [g \in {"g1", "g2"} |->
           << StartTime - OneMinute - Telegram_MESSAGE_BATCH_WINDOW >>]
    /\ marketingEnabled = TRUE
    /\ timers = SetToBag({[ch |-> g, due |-> StartTime, kind |-> "marketing"] :
                              g \in {"g1", "g2"}})
    /\ firings = EmptyBag
    /\ handlers = EmptyBag
    /\ lastOutcome = NoOutcome
    /\ starts = 0
    /\ inbound = 0
    /\ lastResponseTimes = EmptyMap
    /\ lastMarketingTimes = EmptyMap
    /\ groupMessageCounts = EmptyMap
    /\ isProcessingMarketing = EmptyMap
    /\ targetGroups = {}

SpecPair == InitPair /\ [][NextTelegram]_vars

(* The two managers that keep groupActivities *)
SpecActivity ==
    /\ \/ /\ InitDiscord
          /\ groupActivities \in
                 {EmptyMap, [c \in {"general"} |-> Discord_WarmActivity(Discord_MAX_MESSAGES_PER_DAY - 1)]}
       \/ InitTelegram
    /\ [][NextDiscord \/ NextTelegram]_vars

-----------------------------------------------------------------------------
(* Telegram MessageManager of unnamed/part_002: marketing is triggered by a  *)
(* timer and by the count of messages in the group                          *)

Counts_MIN_MESSAGES_FOR_ACTIVE == 5
Counts_MIN_MARKETING_INTERVAL == 6 * 60 * 60 * 1000
Counts_MAX_MARKETING_INTERVAL == 8 * 60 * 60 * 1000

(* Math.floor(Math.random() * (MAX_MARKETING_INTERVAL - MIN_MARKETING_INTERVAL) *)
(* + MIN_MARKETING_INTERVAL): its least and its greatest value                  *)
Counts_Delays == {Counts_MIN_MARKETING_INTERVAL, Counts_MAX_MARKETING_INTERVAL - 1}

(* startMarketing and initializeGroupMarketing: the target groups are set,   *)
(* both maps are cleared, and getDialogs() either rejects (startMarketing    *)
(* throws before it sets the flag), or lacks the group, or has it: then its  *)
(* counter is set to 0 and the first timer is armed                          *)
Counts_StartMarketing(dialogs, delay) ==
    /\ impl = "tgcounts"
    /\ starts < MaxStarts
    /\ starts' = starts + 1
    /\ targetGroups' = TelegramGroups
    /\ lastMarketingTimes' = EmptyMap
    /\ groupMessageCounts' =
           IF dialogs = "found" THEN [g \in TelegramGroups |-> 0] ELSE EmptyMap
    /\ timers' = IF dialogs = "found"
                 THEN timers (+) SetToBag(
                          {[ch |-> g, due |-> now + delay, kind |-> "marketing"] :
                              g \in TelegramGroups})
                 ELSE timers
    /\ marketingEnabled' = IF dialogs = "rejected" THEN marketingEnabled ELSE TRUE
    /\ stopped' = FALSE
    /\ lastOutcome' = NoOutcome
    /\ UNCHANGED <<impl, allowedGroups, interestChannels, now, groupActivities, firings, handlers,
                   channelLog, inbound, batchVars, isProcessingMarketing,
                   messageIntervals, lastMessageTimes, monitoring,
                   connected, gaveUp, isConnected, reconnectAttempts>>

(* stopMarketing *)
Counts_StopMarketing ==
    /\ impl = "tgcounts"
    /\ marketingEnabled
    /\ marketingEnabled' = FALSE
    /\ stopped' = TRUE
    /\ lastOutcome' = NoOutcome
    /\ UNCHANGED <<impl, allowedGroups, interestChannels, now, groupActivities, timers, firings, handlers,
                   channelLog, starts, inbound, batchVars, countVars,
                   messageIntervals, lastMessageTimes, monitoring,
                   connected, gaveUp, isConnected, reconnectAttempts>>

(* sendMarketingMessage up to await generateMarketingMessage(): the group    *)
(* key, Date.now() and the interval check                                    *)
Counts_TooSoon(times, groupKey, t) ==
    t - GetOrZero(times, groupKey) < Counts_MIN_MARKETING_INTERVAL

(* A marketing timer runs sendMarketingMessage *)
Counts_TimerFires(t) ==
    /\ impl = "tgcounts"
    /\ BagIn(t, timers)
    /\ t.due <= now
    /\ timers' = BagRemove(timers, t)
    /\ LET f == [ch |-> t.ch, pc |-> "generate", at |-> now, origin |-> "timer"]
       IN  IF t.ch \notin targetGroups THEN Return(f, "notFound")
           ELSE IF Counts_TooSoon(lastMarketingTimes, t.ch, now)
           THEN Return(f, "denied")
           ELSE firings' = BagAdd(firings, f) /\ lastOutcome' = NoOutcome
    /\ UNCHANGED <<impl, allowedGroups, interestChannels, clientVars, now, marketingEnabled, groupActivities, handlers,
                   channelLog, starts, inbound, batchVars, countVars>>

(* sendMarketingMessage returns (it catches every error).  When it was      *)
(* called by handleMessage, handleMessage goes on after its await: it sets   *)
(* lastMarketingTimes to the time it read before the call, resets the        *)
(* counter and releases the lock.                                            *)
Counts_Finish(f, result, times) ==
    /\ Return(f, result)
    /\ IF f.origin = "handler"
       THEN /\ lastMarketingTimes' = MapSet(times, f.ch, f.at)
            /\ groupMessageCounts' = MapSet(groupMessageCounts, f.ch, 0)
            /\ isProcessingMarketing' = MapSet(isProcessingMarketing, f.ch, FALSE)
       ELSE /\ lastMarketingTimes' = times
            /\ UNCHANGED <<groupMessageCounts, isProcessingMarketing>>

(* generateMarketingMessage() resolved with a text or with null, or threw *)
Counts_GenerateDone(f, message) ==
    /\ impl = "tgcounts"
    /\ BagIn(f, firings)
    /\ f.pc = "generate"
    /\ IF message
       THEN /\ Suspend(f, [f EXCEPT !.pc = "send"])
            /\ UNCHANGED <<lastMarketingTimes, groupMessageCounts,
                           isProcessingMarketing>>
       ELSE Counts_Finish(f, "generationFailed", lastMarketingTimes)
    /\ UNCHANGED <<impl, allowedGroups, interestChannels, clientVars, now, marketingEnabled, groupActivities, timers,
                   handlers, channelLog, starts, inbound, batchVars, targetGroups>>

(* client.sendMessage() resolved or threw.  After a send the time read at   *)
(* the start of sendMarketingMessage is stored; a next check is computed    *)
(* but no timer is armed.                                                   *)
Counts_SendDone(f, sent) ==
    /\ impl = "tgcounts"
    /\ BagIn(f, firings)
    /\ f.pc = "send"
    /\ IF sent
       THEN /\ channelLog' = [channelLog EXCEPT ![f.ch] =
                   Append(@, BotMessage(now, "marketing", FALSE))]
            /\ Counts_Finish(f, "sent", MapSet(lastMarketingTimes, f.ch, f.at))
       ELSE /\ Counts_Finish(f, "sendFailed", lastMarketingTimes)
            /\ UNCHANGED channelLog
    /\ UNCHANGED <<impl, allowedGroups, interestChannels, clientVars, now, marketingEnabled, groupActivities, timers,
                   handlers, starts, inbound, batchVars, targetGroups>>

(* A user's message arrives: handleMessage.  getDialogs() gives the group's *)
(* dialog or not; while the lock is held the message is not counted; the    *)
(* message that brings the counter to MIN_MESSAGES_FOR_ACTIVE, with the     *)
(* interval passed, takes the lock and calls sendMarketingMessage, which    *)
(* runs up to its first await in the same turn.                             *)
Counts_HandleMessage(c, dialogFound) ==
    /\ impl = "tgcounts"
    /\ inbound < MaxInbound
    /\ inbound' = inbound + 1
    /\ channelLog' = [channelLog EXCEPT ![c] = Append(@, UserMessage(now))]
    /\ LET counted == /\ dialogFound
                      /\ c \in targetGroups
                      /\ ~(c \in DOMAIN isProcessingMarketing /\
                           isProcessingMarketing[c])
           count == GetOrZero(groupMessageCounts, c) + 1
           trigger == /\ counted
                      /\ count >= Counts_MIN_MESSAGES_FOR_ACTIVE
                      /\ now - GetOrZero(lastMarketingTimes, c)
                             >= Counts_MIN_MARKETING_INTERVAL
       IN  /\ groupMessageCounts' =
                  IF counted THEN MapSet(groupMessageCounts, c, count)
                  ELSE groupMessageCounts
           /\ isProcessingMarketing' =
                  IF trigger THEN MapSet(isProcessingMarketing, c, TRUE)
                  ELSE isProcessingMarketing
           /\ firings' =
                  IF trigger
                  THEN BagAdd(firings, [ch |-> c, pc |-> "generate", at |-> now,
                                        origin |-> "handler"])
                  ELSE firings
    /\ lastOutcome' = NoOutcome
    /\ UNCHANGED <<impl, allowedGroups, interestChannels, clientVars, now, marketingEnabled, groupActivities, timers,
                   handlers, starts, batchVars, lastMarketingTimes, targetGroups>>

(* The state after construction, and the state of a manager started six      *)
(* hours ago whose group has had four messages since: its first timer is due *)
Counts_WarmLog ==
    [j \in 1..(Counts_MIN_MESSAGES_FOR_ACTIVE - 1) |->
        UserMessage(StartTime - (Counts_MIN_MESSAGES_FOR_ACTIVE - j) * OneMinute)]

InitCounts ==
    /\ impl = "tgcounts"
    /\ NoClient
    /\ now = StartTime
    /\ \/ /\ targetGroups = {}
          /\ groupMessageCounts = EmptyMap
          /\ channelLog = [g \in TelegramGroups |-> <<>>]
          /\ marketingEnabled = FALSE
          /\ timers = EmptyBag
       \/ /\ targetGroups = TelegramGroups
          /\ groupMessageCounts =
                 [g \in TelegramGroups |-> Counts_MIN_MESSAGES_FOR_ACTIVE - 1]
          /\ channelLog = [g \in TelegramGroups |-> Counts_WarmLog]
          /\ marketingEnabled = TRUE
          /\ timers = SetToBag({[ch |-> g, due |-> StartTime, kind |-> "marketing"] :
                                   g \in TelegramGroups})
    /\ lastMarketingTimes = EmptyMap
    /\ isProcessingMarketing = EmptyMap
    /\ groupActivities = EmptyMap
    /\ firings = EmptyBag
    /\ handlers = EmptyBag
    /\ lastOutcome = NoOutcome
    /\ starts = 0
    /\ inbound = 0
    /\ messageBatches = EmptyMap
    /\ lastResponseTimes = EmptyMap

NextCounts ==
    \/ \E dialogs \in {"found", "missing", "rejected"}, delay \in Counts_Delays :
           Counts_StartMarketing(dialogs, delay)
    \/ Counts_StopMarketing
    \/ \E t \in BagToSet(timers) : Counts_TimerFires(t)
    \/ \E f \in BagToSet(firings), message \in BOOLEAN : Counts_GenerateDone(f, message)
    \/ \E f \in BagToSet(firings), sent \in BOOLEAN : Counts_SendDone(f, sent)
    \/ \E c \in TelegramGroups, dialogFound \in BOOLEAN :
           Counts_HandleMessage(c, dialogFound)
    \/ TickMinute
    \/ AdvanceToTimer

SpecCounts == InitCounts /\ [][NextCounts]_vars

-----------------------------------------------------------------------------
(* Telegram MessageManager of unnamed/part_005: lastMarketingTimes per       *)
(* dialog id, a timer chain that re-arms itself                              *)

Dialog_MIN_MARKETING_INTERVAL == 6 * 60 * 60 * 1000
Dialog_MAX_MARKETING_MESSAGES_PER_GROUP == 4

(* Math.floor(Math.random() * (MAX_MARKETING_INTERVAL - MIN_MARKETING_INTERVAL) *)
(* + MIN_MARKETING_INTERVAL) with both constants six hours                      *)
Dialog_Timer(g, t) ==
    [ch |-> g, due |-> t + Dialog_MIN_MARKETING_INTERVAL, kind |-> "marketing"]

(* canSendMarketingMessage *)
Dialog_canSendMarketingMessage(times, groupId, t) ==
    LET lastMessageTime == GetOrZero(times, groupId)
        timeOk == (t - lastMessageTime) >= Dialog_MIN_MARKETING_INTERVAL
    IN  timeOk

(* getMarketingMessageCountToday: of the bot's last four messages in the    *)
(* dialog, those dated today (the day starts at midnight, taken as UTC)     *)
Dialog_CountToday(log, t) ==
    LET own == Reverse(SelectSeq(log, LAMBDA m : m.author = "bot"))
        messages == IF Len(own) > Dialog_MAX_MARKETING_MESSAGES_PER_GROUP
                    THEN SubSeq(own, 1, Dialog_MAX_MARKETING_MESSAGES_PER_GROUP)
                    ELSE own
        today == t - (t % DAY_MS)
    IN  Len(SelectSeq(messages, LAMBDA msg : (msg.time \div 1000) * 1000 >= today))

(* startMarketing and initializeGroupMarketing *)
Dialog_StartMarketing(found) ==
    /\ impl = "tgdialog"
    /\ starts < MaxStarts
    /\ starts' = starts + 1
    /\ targetGroups' = TelegramGroups
    /\ timers' = IF found
                 THEN timers (+) SetToBag({Dialog_Timer(g, now) : g \in TelegramGroups})
                 ELSE timers
    /\ marketingEnabled' = TRUE
    /\ lastOutcome' = NoOutcome
    /\ UNCHANGED <<impl, allowedGroups, interestChannels, clientVars, now, groupActivities, firings, handlers, channelLog,
                   inbound, batchVars, lastMarketingTimes, groupMessageCounts,
                   isProcessingMarketing>>

(* stopMarketing *)
Dialog_StopMarketing ==
    /\ impl = "tgdialog"
    /\ marketingEnabled
    /\ marketingEnabled' = FALSE
    /\ lastOutcome' = NoOutcome
    /\ UNCHANGED <<impl, allowedGroups, interestChannels, clientVars, now, groupActivities, timers, firings, handlers,
                   channelLog, starts, inbound, batchVars, countVars>>

(* A timer runs sendMarketingMessage up to await                            *)
(* getMarketingMessageCountToday(): when marketing is disabled it returns;  *)
(* when canSendMarketingMessage says no it arms the next check and returns  *)
Dialog_TimerFires(t) ==
    /\ impl = "tgdialog"
    /\ BagIn(t, timers)
    /\ t.due <= now
    /\ LET f == [ch |-> t.ch, pc |-> "count"]
           rest == BagRemove(timers, t)
       IN  IF ~marketingEnabled
           THEN timers' = rest /\ Return(f, "disabled")
           ELSE IF ~Dialog_canSendMarketingMessage(lastMarketingTimes, t.ch, now)
           THEN timers' = BagAdd(rest, Dialog_Timer(t.ch, now)) /\ Return(f, "denied")
           ELSE /\ timers' = rest
                /\ firings' = BagAdd(firings, f)
                /\ lastOutcome' = NoOutcome
    /\ UNCHANGED <<impl, allowedGroups, interestChannels, clientVars, now, marketingEnabled, groupActivities, handlers,
                   channelLog, starts, inbound, batchVars, countVars>>

(* getMarketingMessageCountToday() resolved (a failed getMessages counts as *)
(* 0): at the daily maximum sendMarketingMessage returns, arming nothing    *)
Dialog_CountDone(f, fetched) ==
    /\ impl = "tgdialog"
    /\ BagIn(f, firings)
    /\ f.pc = "count"
    /\ LET messageCount ==
               IF fetched THEN Dialog_CountToday(channelLog[f.ch], now) ELSE 0
       IN  IF messageCount >= Dialog_MAX_MARKETING_MESSAGES_PER_GROUP
           THEN Return(f, "limitReached")
           ELSE Suspend(f, [f EXCEPT !.pc = "generate"])
    /\ UNCHANGED <<impl, allowedGroups, interestChannels, clientVars, now, marketingEnabled, groupActivities, timers,
                   handlers, channelLog, starts, inbound, batchVars, countVars>>

(* generateMessageResponse() resolved with a text, with something that is   *)
(* neither a string nor has a text (return), or threw (the catch arms a     *)
(* retry)                                                                   *)
Dialog_GenerateDone(f, response) ==
    /\ impl = "tgdialog"
    /\ BagIn(f, firings)
    /\ f.pc = "generate"
    /\ CASE response = "text" ->
                Suspend(f, [f EXCEPT !.pc = "send"]) /\ UNCHANGED timers
         [] response = "invalid" ->
                Return(f, "generationFailed") /\ UNCHANGED timers
         [] OTHER ->
                /\ Return(f, "generationThrew")
                /\ timers' = BagAdd(timers, Dialog_Timer(f.ch, now))
    /\ UNCHANGED <<impl, allowedGroups, interestChannels, clientVars, now, marketingEnabled, groupActivities, handlers,
                   channelLog, starts, inbound, batchVars, countVars>>

(* The typing indicator (its errors are swallowed) and await sendMessage():  *)
(* resolved, or threw and the catch arms a retry                             *)
Dialog_SendDone(f, sent) ==
    /\ impl = "tgdialog"
    /\ BagIn(f, firings)
    /\ f.pc = "send"
    /\ IF sent
       THEN /\ channelLog' = [channelLog EXCEPT ![f.ch] =
                   Append(@, BotMessage(now, "marketing", FALSE))]
            /\ Suspend(f, [f EXCEPT !.pc = "memory"])
            /\ UNCHANGED timers
       ELSE /\ Return(f, "sendFailed")
            /\ timers' = BagAdd(timers, Dialog_Timer(f.ch, now))
            /\ UNCHANGED channelLog
    /\ UNCHANGED <<impl, allowedGroups, interestChannels, clientVars, now, marketingEnabled, groupActivities, handlers,
                   starts, inbound, batchVars, countVars>>

(* await runtime.messageManager.createMemory(): resolved, and the send is   *)
(* recorded and the next message scheduled; or threw, and the catch arms a  *)
(* retry                                                                    *)
Dialog_MemoryDone(f, stored) ==
    /\ impl = "tgdialog"
    /\ BagIn(f, firings)
    /\ f.pc = "memory"
    /\ lastMarketingTimes' =
           IF stored THEN MapSet(lastMarketingTimes, f.ch, now)
           ELSE lastMarketingTimes
    /\ timers' = BagAdd(timers, Dialog_Timer(f.ch, now))
    /\ Return(f, IF stored THEN "sent" ELSE "memoryFailed")
    /\ UNCHANGED <<impl, allowedGroups, interestChannels, clientVars, now, marketingEnabled, groupActivities, handlers,
                   channelLog, starts, inbound, batchVars, groupMessageCounts,
                   isProcessingMarketing, targetGroups>>

(* A user's message arrives: handleMessage answers it or not; it reads and  *)
(* writes none of the marketing fields                                      *)
Dialog_HandleMessage(c, response) ==
    /\ impl = "tgdialog"
    /\ inbound < MaxInbound
    /\ inbound' = inbound + 1
    /\ channelLog' = [channelLog EXCEPT ![c] =
           IF response
           THEN Append(Append(@, UserMessage(now)), BotMessage(now, "reply", FALSE))
           ELSE Append(@, UserMessage(now))]
    /\ lastOutcome' = NoOutcome
    /\ UNCHANGED <<impl, allowedGroups, interestChannels, clientVars, now, marketingEnabled, groupActivities, timers,
                   firings, handlers, starts, batchVars, countVars>>

InitDialog ==
    /\ impl = "tgdialog"
    /\ NoClient
    /\ now = StartTime
    /\ targetGroups = {}
    /\ channelLog = [g \in TelegramGroups |-> <<>>]
    /\ marketingEnabled = FALSE
    /\ timers = EmptyBag
    /\ lastMarketingTimes = EmptyMap
    /\ groupMessageCounts = EmptyMap
    /\ isProcessingMarketing = EmptyMap
    /\ groupActivities = EmptyMap
    /\ firings = EmptyBag
    /\ handlers = EmptyBag
    /\ lastOutcome = NoOutcome
    /\ starts = 0
    /\ inbound = 0
    /\ messageBatches = EmptyMap
    /\ lastResponseTimes = EmptyMap

NextDialog ==
    \/ \E found \in BOOLEAN : Dialog_StartMarketing(found)
    \/ Dialog_StopMarketing
    \/ \E t \in BagToSet(timers) : Dialog_TimerFires(t)
    \/ \E f \in BagToSet(firings), fetched \in BOOLEAN : Dialog_CountDone(f, fetched)
    \/ \E f \in BagToSet(firings), response \in {"text", "invalid", "threw"} :
           Dialog_GenerateDone(f, response)
    \/ \E f \in BagToSet(firings), sent \in BOOLEAN : Dialog_SendDone(f, sent)
    \/ \E f \in BagToSet(firings), stored \in BOOLEAN : Dialog_MemoryDone(f, stored)
    \/ \E c \in TelegramGroups, response \in BOOLEAN : Dialog_HandleMessage(c, response)
    \/ TickMinute
    \/ AdvanceToTimer

SpecDialog == InitDialog /\ [][NextDialog]_vars

-----------------------------------------------------------------------------
(* MarketingManager of unnamed/part_000: one timer per group, kept in       *)
(* messageIntervals, whose callback always schedules the next one           *)

Manager_MIN_INTERVAL == 90 * 1000
Manager_MAX_INTERVAL == 150 * 1000

(* scheduleNextMessage for the dialogs G: the timer stored for the group is *)
(* cleared (nothing happens when it has fired already), a new one is armed  *)
(* after interval + jitter and stored                                       *)
Manager_scheduleNextMessage(G, finalInterval) ==
    LET timeout(g) == [ch |-> g, due |-> now + finalInterval, kind |-> "marketing"]
        existing == {messageIntervals[g] : g \in G \cap DOMAIN messageIntervals}
    IN  /\ timers' = (timers (-) SetToBag(existing)) (+)
                     SetToBag({timeout(g) : g \in G})
        /\ messageIntervals' = [g \in DOMAIN messageIntervals \cup G |->
               IF g \in G THEN timeout(g) ELSE messageIntervals[g]]

(* start and initializeGroupMarketing: getDialogs() has the target groups,  *)
(* or lacks them, or rejects (caught and logged)                            *)
Manager_Start(dialogs, finalInterval) ==
    /\ impl = "tgmanager"
    /\ starts < MaxStarts
    /\ starts' = starts + 1
    /\ targetGroups' = TelegramGroups
    /\ stopped' = FALSE
    /\ IF dialogs = "found"
       THEN Manager_scheduleNextMessage(TelegramGroups, finalInterval)
       ELSE UNCHANGED <<timers, messageIntervals>>
    /\ lastOutcome' = NoOutcome
    /\ UNCHANGED <<impl, allowedGroups, interestChannels, now, marketingEnabled, groupActivities, firings,
                   handlers, channelLog, inbound, batchVars, lastMarketingTimes,
                   groupMessageCounts, isProcessingMarketing, lastMessageTimes,
                   monitoring, connected, gaveUp, isConnected, reconnectAttempts>>

(* stop: every stored timer is cleared and its entry deleted.  lastOutcome  *)
(* tells whether the operation before this one was a stop as well.          *)
Manager_Stop ==
    /\ impl = "tgmanager"
    /\ timers' = timers (-)
           SetToBag({messageIntervals[g] : g \in DOMAIN messageIntervals})
    /\ messageIntervals' = EmptyMap
    /\ stopped' = TRUE
    /\ lastOutcome' = [ch |-> IF lastOutcome.result = "stopped" THEN "again" ELSE "",
                       result |-> "stopped"]
    /\ UNCHANGED <<impl, allowedGroups, interestChannels, now, marketingEnabled, groupActivities, firings,
                   handlers, channelLog, starts, inbound, batchVars, countVars,
                   lastMessageTimes, monitoring, connected, gaveUp, isConnected,
                   reconnectAttempts>>

(* The timer's callback calls sendMarketingMessage, which starts its first  *)
(* attempt and waits for getMessageCountToday()                             *)
Manager_TimerFires(t) ==
    /\ impl = "tgmanager"
    /\ BagIn(t, timers)
    /\ t.due <= now
    /\ (t.due - StartTime) % (96 * Manager_MIN_INTERVAL)
           <= MaxCycles * (Manager_MAX_INTERVAL + 59999)
    /\ timers' = BagRemove(timers, t)
    /\ firings' = BagAdd(firings, [ch |-> t.ch, pc |-> "count", attempt |-> 0, at |-> now])
    /\ lastOutcome' = NoOutcome
    /\ UNCHANGED <<impl, allowedGroups, interestChannels, clientVars, now, marketingEnabled, groupActivities,
                   handlers, channelLog, starts, inbound, batchVars, countVars>>

(* A faulty retry loop: one attempt too many *)
Faulty_NextAttempt(f, result, finalInterval) ==
    LET maxRetries == 4
        isLastAttempt == f.attempt = maxRetries - 1
    IN  IF isLastAttempt
        THEN /\ Return(f, result)
             /\ Manager_scheduleNextMessage({f.ch}, finalInterval)
        ELSE /\ Suspend(f, [f EXCEPT !.pc = "count", !.attempt = @ + 1, !.at = now])
             /\ UNCHANGED <<timers, messageIntervals>>

(* An attempt of sendMarketingMessage is over without a send.  After the    *)
(* last of the maxRetries attempts the callback's finally schedules the     *)
(* next message; before it, the next attempt starts (after a pause of five  *)
(* seconds when the attempt threw).                                         *)
Manager_NextAttempt(f, result, finalInterval) ==
    LET maxRetries == 3
        isLastAttempt == f.attempt = maxRetries - 1
    IN  IF isLastAttempt
        THEN /\ Return(f, result)
             /\ Manager_scheduleNextMessage({f.ch}, finalInterval)
        ELSE /\ Suspend(f, [f EXCEPT !.pc = "count", !.attempt = @ + 1, !.at = now])
             /\ UNCHANGED <<timers, messageIntervals>>

(* getMessageCountToday() resolved (0 when getMessages failed): at the      *)
(* daily maximum sendMarketingMessage returns and the finally schedules the *)
(* next message; otherwise, after a random pause, the response is generated *)
Manager_CountDone(f, fetched, finalInterval) ==
    /\ impl = "tgmanager"
    /\ BagIn(f, firings)
    /\ f.pc = "count"
    /\ LET MAX_MESSAGES_PER_GROUP == 96
           today == now - (now % DAY_MS)
           own == SelectSeq(channelLog[f.ch], LAMBDA m : m.author = "bot")
           messages == IF Len(own) > 100 THEN SubSeq(own, Len(own) - 99, Len(own))
                       ELSE own
           messageCount ==
               IF fetched
               THEN Len(SelectSeq(messages,
                        LAMBDA msg : (msg.time \div 1000) * 1000 >= today))
               ELSE 0
       IN  IF messageCount >= MAX_MESSAGES_PER_GROUP
           THEN /\ Return(f, "limitReached")
                /\ Manager_scheduleNextMessage({f.ch}, finalInterval)
           ELSE /\ Suspend(f, [f EXCEPT !.pc = "generate"])
                /\ UNCHANGED <<timers, messageIntervals>>
    /\ UNCHANGED <<impl, allowedGroups, interestChannels, now, marketingEnabled, groupActivities, handlers,
                   channelLog, starts, inbound, batchVars, countVars,
                   lastMessageTimes, stopped, monitoring, connected, gaveUp,
                   isConnected, reconnectAttempts>>

(* generateMessageResponse() resolved with a text, resolved without one     *)
(* (the loop goes on to the next attempt), or threw                         *)
Manager_GenerateDone(f, response, finalInterval) ==
    /\ impl = "tgmanager"
    /\ BagIn(f, firings)
    /\ f.pc = "generate"
    /\ CASE response = "text" ->
                /\ Suspend(f, [f EXCEPT !.pc = "send"])
                /\ UNCHANGED <<timers, messageIntervals>>
         [] response = "empty" -> Manager_NextAttempt(f, "noMessage", finalInterval)
         [] OTHER -> Manager_NextAttempt(f, "failed", finalInterval)
    /\ UNCHANGED <<impl, allowedGroups, interestChannels, now, marketingEnabled, groupActivities, handlers,
                   channelLog, starts, inbound, batchVars, countVars,
                   lastMessageTimes, stopped, monitoring, connected, gaveUp,
                   isConnected, reconnectAttempts>>

(* sendAction('typing'), the typing pause and sendMessage(): the message is *)
(* sent, the time read at the start of the attempt is stored and the        *)
(* finally schedules the next message; or one of the calls threw            *)
Manager_SendDone(f, sent, finalInterval) ==
    /\ impl = "tgmanager"
    /\ BagIn(f, firings)
    /\ f.pc = "send"
    /\ IF sent
       THEN /\ channelLog' = [channelLog EXCEPT ![f.ch] =
                   Append(@, BotMessage(now, "marketing", FALSE))]
            /\ lastMessageTimes' = MapSet(lastMessageTimes, f.ch, f.at)
            /\ Return(f, "sent")
            /\ Manager_scheduleNextMessage({f.ch}, finalInterval)
       ELSE /\ Manager_NextAttempt(f, "failed", finalInterval)
            /\ UNCHANGED <<channelLog, lastMessageTimes>>
    /\ UNCHANGED <<impl, allowedGroups, interestChannels, now, marketingEnabled, groupActivities, handlers,
                   starts, inbound, batchVars, countVars, stopped, monitoring,
                   connected, gaveUp, isConnected, reconnectAttempts>>

InitManager ==
    /\ impl = "tgmanager"
    /\ NoClient
    /\ now = StartTime
    /\ targetGroups = {}
    /\ channelLog = [g \in TelegramGroups |-> <<>>]
    /\ marketingEnabled = FALSE
    /\ timers = EmptyBag
    /\ lastMarketingTimes = EmptyMap
    /\ groupMessageCounts = EmptyMap
    /\ isProcessingMarketing = EmptyMap
    /\ groupActivities = EmptyMap
    /\ firings = EmptyBag
    /\ handlers = EmptyBag
    /\ lastOutcome = NoOutcome
    /\ starts = 0
    /\ inbound = 0
    /\ messageBatches = EmptyMap
    /\ lastResponseTimes = EmptyMap

(* finalInterval is interval + jitter: its least and its greatest value *)
NextManager ==
    LET finalIntervals == {Manager_MIN_INTERVAL, Manager_MAX_INTERVAL + 59999}
    IN  \/ \E dialogs \in {"found", "missing", "rejected"}, i \in finalIntervals :
               Manager_Start(dialogs, i)
        \/ Manager_Stop
        \/ \E t \in BagToSet(timers) : Manager_TimerFires(t)
        \/ \E f \in BagToSet(firings), fetched \in BOOLEAN, i \in finalIntervals :
               Manager_CountDone(f, fetched, i)
        \/ \E f \in BagToSet(firings), i \in finalIntervals,
              response \in {"text", "empty", "threw"} :
               Manager_GenerateDone(f, response, i)
        \/ \E f \in BagToSet(firings), sent \in BOOLEAN, i \in finalIntervals :
               Manager_SendDone(f, sent, i)
        \/ AdvanceToTimer

SpecManager == InitManager /\ [][NextManager]_vars

(* The manager when every await of sendMarketingMessage settles: the        *)
(* promises of getMessages, generateMessageResponse, sendMessage and the    *)
(* pauses resolve or reject in the end                                      *)
SpecManagerFair ==
    /\ SpecManager
    /\ WF_vars(\E f \in BagToSet(firings), i \in {Manager_MIN_INTERVAL} :
                  \/ \E fetched \in BOOLEAN : Manager_CountDone(f, fetched, i)
                  \/ \E response \in {"text", "empty", "threw"} :
                         Manager_GenerateDone(f, response, i)
                  \/ \E sent \in BOOLEAN : Manager_SendDone(f, sent, i))

(* The manager before its start, or at the end of a morning in which it     *)
(* sent a message every MIN_INTERVAL since midnight: the group holds 96     *)
(* messages of today and the timer of the next one is armed.                *)
InitFullDay ==
    \/ InitManager
    \/ LET sentToday == 96
           timeout == [ch |-> "g1", due |-> now + Manager_MIN_INTERVAL,
                       kind |-> "marketing"]
       IN  /\ impl = "tgmanager"
           /\ now = StartTime + sentToday * Manager_MIN_INTERVAL
           /\ targetGroups = TelegramGroups
           /\ channelLog = [g \in TelegramGroups |->
                  [i \in 1..sentToday |->
                      BotMessage(StartTime + i * Manager_MIN_INTERVAL, "marketing", FALSE)]]
           /\ timers = SetToBag({timeout})
           /\ messageIntervals = [g \in TelegramGroups |-> timeout]
           /\ lastMessageTimes = [g \in TelegramGroups |-> now]
           /\ stopped = FALSE
           /\ monitoring = FALSE
           /\ connected = TRUE
           /\ gaveUp = FALSE
           /\ isConnected = FALSE
           /\ reconnectAttempts = 0
           /\ allowedGroups = {}
           /\ interestChannels = EmptyMap
           /\ marketingEnabled = FALSE
           /\ lastMarketingTimes = EmptyMap
           /\ groupMessageCounts = EmptyMap
           /\ isProcessingMarketing = EmptyMap
           /\ groupActivities = EmptyMap
           /\ firings = EmptyBag
           /\ handlers = EmptyBag
           /\ lastOutcome = NoOutcome
           /\ starts = MaxStarts
           /\ inbound = 0
           /\ messageBatches = EmptyMap
           /\ lastResponseTimes = EmptyMap

SpecFullDay == InitFullDay /\ [][NextManager]_vars

(* The two managers whose stopping is compared *)
(* Either manager before its start *)
InitStopping == (InitDiscord /\ timers = EmptyBag) \/ InitManager

SpecStopping ==
    /\ InitStopping
    /\ [][(impl = "discord" /\ NextDiscord) \/ (impl = "tgmanager" /\ NextManager)]_vars

-----------------------------------------------------------------------------
(* TelegramUserClient of unnamed/part_001, the owner of the client-telegram *)
(* MessageManager: the connection monitor and reconnectWithBackoff          *)

(* reconnectWithBackoff(attempt) up to its pause: it throws at maxAttempts  *)
(* (the monitor's callback catches and logs that), else it waits for the    *)
(* delay of the attempt.  T is the bag of timers it adds its pause to.      *)
User_reconnectWithBackoff(T, attempt) ==
    LET maxAttempts == 10
        baseDelay == 1000
        maxDelay == 30000
        delay == IF baseDelay * 2^attempt < maxDelay
                 THEN baseDelay * 2^attempt ELSE maxDelay
    IN  IF attempt >= maxAttempts
        THEN /\ gaveUp' = TRUE
             /\ timers' = T
        ELSE /\ timers' = BagAdd(T, [ch |-> "", due |-> now + delay, kind |-> "backoff",
                                     attempt |-> attempt, delay |-> delay])
             /\ UNCHANGED gaveUp

(* start, after startMarketing has returned: setInterval(ensureConnection, 60000) *)
User_Start ==
    /\ impl = "telegram"
    /\ marketingEnabled
    /\ ~monitoring
    /\ monitoring' = TRUE
    /\ timers' = BagAdd(timers, [ch |-> "", due |-> now + 60000, kind |-> "monitor"])
    /\ lastOutcome' = NoOutcome
    /\ UNCHANGED <<impl, allowedGroups, interestChannels, now, marketingEnabled, groupActivities, firings,
                   handlers, channelLog, starts, inbound, batchVars, countVars,
                   messageIntervals, lastMessageTimes, stopped, connected,
                   gaveUp, isConnected, reconnectAttempts>>

(* The transport loses its connection *)
User_ConnectionLost ==
    /\ impl = "telegram"
    /\ monitoring
    /\ connected
    /\ connected' = FALSE
    /\ lastOutcome' = NoOutcome
    /\ UNCHANGED <<impl, allowedGroups, interestChannels, now, marketingEnabled, groupActivities, timers, firings,
                   handlers, channelLog, starts, inbound, batchVars, countVars,
                   messageIntervals, lastMessageTimes, stopped, monitoring,
                   gaveUp, isConnected, reconnectAttempts>>

(* The reconnectWithBackoff chains that are running: pausing or connecting *)
User_Chains ==
    BagCardinality([t \in {u \in BagToSet(timers) : u.kind = "backoff"} |->
                       CopiesIn(t, timers)]) +
    BagCardinality([f \in {g \in BagToSet(firings) : g.pc = "connect"} |->
                       CopiesIn(f, firings)])

(* A tick of the monitor: ensureConnection starts reconnectWithBackoff()    *)
(* when the client is not connected.  The interval goes on for MaxTicks     *)
(* ticks, and a chain is started while fewer than MaxChains are running.    *)
User_MonitorFires(t) ==
    /\ impl = "telegram"
    /\ BagIn(t, timers)
    /\ t.kind = "monitor"
    /\ t.due <= now
    /\ LET next == [t EXCEPT !.due = @ + 60000]
           rest == IF next.due - StartTime <= (MaxTicks + 1) * 60000
                   THEN BagAdd(BagRemove(timers, t), next)
                   ELSE BagRemove(timers, t)
       IN  IF ~connected /\ User_Chains < MaxChains
           THEN User_reconnectWithBackoff(rest, 0)
           ELSE timers' = rest /\ UNCHANGED gaveUp
    /\ lastOutcome' = NoOutcome
    /\ UNCHANGED <<impl, allowedGroups, interestChannels, now, marketingEnabled, groupActivities, firings,
                   handlers, channelLog, starts, inbound, batchVars, countVars,
                   messageIntervals, lastMessageTimes, stopped, monitoring,
                   connected, isConnected, reconnectAttempts>>

(* The pause of an attempt is over: client.connect() is called *)
User_BackoffFires(t) ==
    /\ impl = "telegram"
    /\ BagIn(t, timers)
    /\ t.kind = "backoff"
    /\ t.due <= now
    /\ timers' = BagRemove(timers, t)
    /\ firings' = BagAdd(firings, [ch |-> "", pc |-> "connect", attempt |-> t.attempt])
    /\ lastOutcome' = NoOutcome
    /\ UNCHANGED <<impl, allowedGroups, interestChannels, clientVars, now, marketingEnabled, groupActivities,
                   handlers, channelLog, starts, inbound, batchVars, countVars>>

(* client.connect() resolved, or rejected: reconnectWithBackoff(attempt + 1) *)
User_ConnectDone(f, ok) ==
    /\ impl = "telegram"
    /\ BagIn(f, firings)
    /\ f.pc = "connect"
    /\ firings' = BagRemove(firings, f)
    /\ IF ok
       THEN /\ connected' = TRUE
            /\ UNCHANGED <<timers, gaveUp>>
       ELSE /\ User_reconnectWithBackoff(timers, f.attempt + 1)
            /\ UNCHANGED connected
    /\ lastOutcome' = NoOutcome
    /\ UNCHANGED <<impl, allowedGroups, interestChannels, now, marketingEnabled, groupActivities, handlers,
                   channelLog, starts, inbound, batchVars, countVars,
                   messageIntervals, lastMessageTimes, stopped, monitoring,
                   isConnected, reconnectAttempts>>

(* The client's connection supervision *)
NextUser ==
    \/ \E found \in SUBSET DOMAIN channelLog : Telegram_StartMarketing(found)
    \/ User_Start
    \/ User_ConnectionLost
    \/ \E t \in BagToSet(timers) : User_MonitorFires(t)
    \/ \E t \in BagToSet(timers) : User_BackoffFires(t)
    \/ \E f \in BagToSet(firings), ok \in BOOLEAN : User_ConnectDone(f, ok)
    \/ AdvanceToTimer

(* The client before start, marketing not yet started *)
InitUser == InitTelegram /\ timers = EmptyBag

SpecUser == InitUser /\ [][NextUser]_vars

(* The event handler that setupMessageHandlers registers: a message of chat *)
(* chatId arrives.  Unless isAllowedGroup(chatId), the handler returns;     *)
(* otherwise the message goes to messageManager.handleMessage and the       *)
(* response, if there is one, is sent to the chat.                          *)
User_NewMessage(chatId, shouldRespond, response) ==
    LET normalizedChatId == CASE chatId = "-g2" -> "g2" [] OTHER -> chatId
        isAllowed == allowedGroups = {} \/ normalizedChatId \in allowedGroups
    IN  IF isAllowed
        THEN Telegram_HandleMessage(chatId, shouldRespond, response)
        ELSE /\ impl = "telegram"
             /\ inbound < MaxInbound
             /\ inbound' = inbound + 1
             /\ channelLog' = [channelLog EXCEPT ![chatId] = Append(@, UserMessage(now))]
             /\ lastOutcome' = NoOutcome
             /\ UNCHANGED <<impl, allowedGroups, interestChannels, clientVars, now, marketingEnabled,
                            groupActivities, timers, firings, handlers, starts,
                            batchVars, countVars>>

(* The client constructed with TELEGRAM_ALLOWED_GROUPS unset or naming some *)
(* of its two chats (the minus sign of an id is removed), in two chats with *)
(* recent activity, each four messages into a batch                         *)
InitGate ==
    /\ impl = "telegram"
    /\ allowedGroups \in SUBSET {"g1", "g2"}
    /\ interestChannels = EmptyMap
    /\ messageIntervals = EmptyMap
    /\ lastMessageTimes = EmptyMap
    /\ stopped = FALSE
    /\ monitoring = FALSE
    /\ connected = TRUE
    /\ gaveUp = FALSE
    /\ isConnected = FALSE
    /\ reconnectAttempts = 0
    /\ now = StartTime
    /\ groupActivities = [g \in {"g1", "-g2"} |-> Telegram_WarmActivity]
    /\ channelLog = [g \in {"g1", "-g2"} |-> Telegram_WarmLog]
    /\ messageBatches = [g \in {"g1", "-g2"} |->
           [i \in 1..(Telegram_MAX_BATCH_SIZE - 1) |-> StartTime - 1000]]
    /\ marketingEnabled = FALSE
    /\ timers = SetToBag({[ch |-> g, due |-> StartTime - 1000 + Telegram_MESSAGE_BATCH_WINDOW,
                           kind |-> "batch"] : g \in {"g1", "-g2"}})
    /\ firings = EmptyBag
    /\ handlers = EmptyBag
    /\ lastOutcome = NoOutcome
    /\ starts = 0
    /\ inbound = 0
    /\ lastResponseTimes = EmptyMap
    /\ lastMarketingTimes = EmptyMap
    /\ groupMessageCounts = EmptyMap
    /\ isProcessingMarketing = EmptyMap
    /\ targetGroups = {}

SpecGate ==
    /\ InitGate
    /\ [][\/ \E chatId \in DOMAIN channelLog, shouldRespond \in BOOLEAN, response \in BOOLEAN :
                 User_NewMessage(chatId, shouldRespond, response)
          \/ \E t \in BagToSet(timers) : Telegram_BatchTimerFires(t)
          \/ AdvanceToTimer]_vars

(* handleMessage of the packaged Telegram manager split at its awaits (in   *)
(* Telegram_HandleMessage no other callback runs before the response is     *)
(* there).  An execution of handleMessageInternal in flight is a record of  *)
(* handlers: pc is the await it is suspended at, from tells whether         *)
(* processBatch or handleMessage called it.                                 *)

(* A message arrives in chat c: handleMessage and shouldProcessMessage.     *)
(* When the batch is full, processBatch is called without await and runs    *)
(* handleMessageInternal up to generateMessageResponse; shouldProcessMessage *)
(* returns true and handleMessage calls handleMessageInternal itself.       *)
Telegram_MessageArrives(c) ==
    /\ impl = "telegram"
    /\ inbound <= MaxInbound
    /\ inbound' = inbound + 1
    /\ channelLog' = [channelLog EXCEPT ![c] = Append(@, UserMessage(now))]
    /\ LET tooSoon == now - GetOrZero(lastResponseTimes, c)
                          < Telegram_MIN_MESSAGE_INTERVAL
           old == IF c \in DOMAIN messageBatches THEN messageBatches[c] ELSE <<>>
           batch == SelectSeq(Append(old, now),
                        LAMBDA ts : now - ts < Telegram_MESSAGE_BATCH_WINDOW)
           isLastInBatch == Len(batch) >= Telegram_MAX_BATCH_SIZE
           process == ~tooSoon /\ isLastInBatch
       IN  /\ messageBatches' =
                  IF tooSoon THEN messageBatches ELSE MapSet(messageBatches, c, batch)
           /\ timers' =
                  IF tooSoon THEN timers
                  ELSE IF Len(batch) = 1
                  THEN BagAdd(Telegram_ClearBatchTimer(timers, c),
                           [ch |-> c, due |-> now + Telegram_MESSAGE_BATCH_WINDOW,
                            kind |-> "batch"])
                  ELSE IF isLastInBatch THEN Telegram_ClearBatchTimer(timers, c)
                  ELSE timers
           /\ groupActivities' =
                  IF process
                  THEN Telegram_updateGroupActivity(
                           Telegram_updateGroupActivity(groupActivities, c, now),
                           c, now)
                  ELSE groupActivities
           /\ handlers' =
                  IF process
                  THEN handlers (+) SetToBag({[ch |-> c, pc |-> "response", from |-> caller] :
                                                  caller \in {"processBatch", "handleMessage"}})
                  ELSE handlers
    /\ lastOutcome' = NoOutcome
    /\ UNCHANGED <<impl, allowedGroups, interestChannels, clientVars, now, marketingEnabled, firings, starts,
                   lastResponseTimes, countVars>>

(* The batch timer of a chat fires: processBatch.  With messages in the     *)
(* batch it runs handleMessageInternal up to generateMessageResponse.       *)
Telegram_BatchTimeout(t) ==
    /\ impl = "telegram"
    /\ BagIn(t, timers)
    /\ t.kind = "batch"
    /\ t.due <= now
    /\ timers' = BagRemove(timers, t)
    /\ IF t.ch \in DOMAIN messageBatches /\ messageBatches[t.ch] # <<>>
       THEN /\ groupActivities' = Telegram_updateGroupActivity(groupActivities, t.ch, now)
            /\ handlers' = BagAdd(handlers,
                   [ch |-> t.ch, pc |-> "response", from |-> "processBatch"])
       ELSE UNCHANGED <<groupActivities, handlers>>
    /\ lastOutcome' = NoOutcome
    /\ UNCHANGED <<impl, allowedGroups, interestChannels, clientVars, now, marketingEnabled, firings, channelLog,
                   starts, inbound, batchVars, countVars>>

(* An await of handleMessageInternal settles: generateMessageResponse, then *)
(* generateShouldRespond, gives a value, gives none (null, false), or       *)
(* throws.  With both values lastResponseTimes is set and the response      *)
(* returned: handleMessage returns it to the client, which sends it;        *)
(* processBatch drops it.  processBatch then empties the batch, unless      *)
(* handleMessageInternal threw.                                             *)
Telegram_AwaitSettles(h, result) ==
    /\ impl = "telegram"
    /\ BagIn(h, handlers)
    /\ LET goesOn == h.pc = "response" /\ result = "value"
           responds == h.pc = "shouldRespond" /\ result = "value"
       IN  /\ handlers' =
                  IF goesOn
                  THEN BagAdd(BagRemove(handlers, h), [h EXCEPT !.pc = "shouldRespond"])
                  ELSE BagRemove(handlers, h)
           /\ lastResponseTimes' =
                  IF responds THEN MapSet(lastResponseTimes, h.ch, now)
                  ELSE lastResponseTimes
           /\ messageBatches' =
                  IF ~goesOn /\ h.from = "processBatch" /\ result # "threw"
                  THEN MapSet(messageBatches, h.ch, <<>>)
                  ELSE messageBatches
           /\ channelLog' =
                  IF responds /\ h.from = "handleMessage"
                  THEN [channelLog EXCEPT ![h.ch] = Append(@, BotMessage(now, "reply", FALSE))]
                  ELSE channelLog
    /\ lastOutcome' = NoOutcome
    /\ UNCHANGED <<impl, allowedGroups, interestChannels, clientVars, now, marketingEnabled, groupActivities,
                   timers, firings, starts, inbound, countVars>>

(* The manager in two chats, each four messages into a batch *)
SpecBatch ==
    /\ InitGate
    /\ [][\/ \E c \in DOMAIN channelLog : Telegram_MessageArrives(c)
          \/ \E t \in BagToSet(timers) : Telegram_BatchTimeout(t)
          \/ \E h \in BagToSet(handlers), result \in {"value", "none", "threw"} :
                 Telegram_AwaitSettles(h, result)
          \/ AdvanceToTimer]_vars

(* The MessageManager's marketing under a client whose connection drops, in *)
(* the first minute of the monitor                                          *)
SpecOffline ==
    /\ InitTelegram
    /\ [][\/ NextTelegram
          \/ User_Start
          \/ User_ConnectionLost
          \/ \E t \in BagToSet(timers) : User_MonitorFires(t)]_vars

-----------------------------------------------------------------------------
(* TelegramClient of unnamed/part_002: isConnected, reconnectAttempts and   *)
(* the reconnect timer of handleConnectionError                             *)

Bot_MAX_RECONNECT_ATTEMPTS == 10
Bot_RECONNECT_DELAY == 5000

(* clearTimeout(this.reconnectTimeout): the field holds the timer armed     *)
(* last, every earlier one was cleared or has fired                         *)
Bot_clearReconnectTimeout(T) ==
    [t \in {u \in BagToSet(T) : u.kind # "reconnect"} |-> CopiesIn(t, T)]

(* A faulty handleConnectionError: the limit is tested with > *)
Faulty_handleConnectionError(T) ==
    /\ isConnected' = FALSE
    /\ IF reconnectAttempts > Bot_MAX_RECONNECT_ATTEMPTS
       THEN /\ timers' = Bot_clearReconnectTimeout(T)
            /\ stopped' = TRUE
            /\ UNCHANGED reconnectAttempts
       ELSE LET attempts == reconnectAttempts + 1
                delay == Bot_RECONNECT_DELAY * 2^(attempts - 1)
            IN  /\ reconnectAttempts' = attempts
                /\ timers' = BagAdd(Bot_clearReconnectTimeout(T),
                       [ch |-> "", due |-> now + delay, kind |-> "reconnect",
                        attempt |-> attempts, delay |-> delay])
                /\ UNCHANGED stopped

(* handleConnectionError, T being the pending timers: at the attempt limit  *)
(* stop() is awaited (it clears the reconnect timer and stops the bot),     *)
(* else the counter is incremented and the reconnect timer armed anew       *)
Bot_handleConnectionError(T) ==
    /\ isConnected' = FALSE
    /\ IF reconnectAttempts >= Bot_MAX_RECONNECT_ATTEMPTS
       THEN /\ timers' = Bot_clearReconnectTimeout(T)
            /\ stopped' = TRUE
            /\ UNCHANGED reconnectAttempts
       ELSE LET attempts == reconnectAttempts + 1
                delay == Bot_RECONNECT_DELAY * 2^(attempts - 1)
            IN  /\ reconnectAttempts' = attempts
                /\ timers' = BagAdd(Bot_clearReconnectTimeout(T),
                       [ch |-> "", due |-> now + delay, kind |-> "reconnect",
                        attempt |-> attempts, delay |-> delay])
                /\ UNCHANGED stopped

(* start: initializeBot is entered and waits for bot.launch() *)
Bot_Start ==
    /\ impl = "tgbot"
    /\ starts < MaxStarts
    /\ starts' = starts + 1
    /\ firings' = BagAdd(firings, [ch |-> "", pc |-> "launch", from |-> "start"])
    /\ lastOutcome' = NoOutcome
    /\ UNCHANGED <<impl, allowedGroups, interestChannels, clientVars, now, marketingEnabled, groupActivities,
                   timers, handlers, channelLog, inbound, batchVars, countVars>>

(* A faulty end of bot.launch(): the counter is not reset *)
Faulty_LaunchDone(f, ok) ==
    /\ impl = "tgbot"
    /\ BagIn(f, firings)
    /\ f.pc = "launch"
    /\ IF ok
       THEN /\ isConnected' = TRUE
            /\ firings' = BagAdd(BagRemove(firings, f), [f EXCEPT !.pc = "getMe"])
            /\ UNCHANGED <<timers, stopped, reconnectAttempts>>
       ELSE /\ firings' = BagRemove(firings, f)
            /\ Bot_handleConnectionError(timers)
    /\ lastOutcome' = NoOutcome
    /\ UNCHANGED <<impl, allowedGroups, interestChannels, now, marketingEnabled, groupActivities, handlers,
                   channelLog, starts, inbound, batchVars, countVars,
                   messageIntervals, lastMessageTimes, monitoring, connected, gaveUp>>

(* initializeBot: bot.launch() resolved (the bot is connected, the counter  *)
(* reset, getMe() awaited) or rejected (handleConnectionError)              *)
Bot_LaunchDone(f, ok) ==
    /\ impl = "tgbot"
    /\ BagIn(f, firings)
    /\ f.pc = "launch"
    /\ IF ok
       THEN /\ isConnected' = TRUE
            /\ reconnectAttempts' = 0
            /\ firings' = BagAdd(BagRemove(firings, f), [f EXCEPT !.pc = "getMe"])
            /\ UNCHANGED <<timers, stopped>>
       ELSE /\ firings' = BagRemove(firings, f)
            /\ Bot_handleConnectionError(timers)
    /\ lastOutcome' = NoOutcome
    /\ UNCHANGED <<impl, allowedGroups, interestChannels, now, marketingEnabled, groupActivities, handlers,
                   channelLog, starts, inbound, batchVars, countVars,
                   messageIntervals, lastMessageTimes, monitoring, connected, gaveUp>>

(* initializeBot: bot.telegram.getMe() resolved or rejected *)
Bot_GetMeDone(f, ok) ==
    /\ impl = "tgbot"
    /\ BagIn(f, firings)
    /\ f.pc = "getMe"
    /\ firings' = BagRemove(firings, f)
    /\ IF ok
       THEN UNCHANGED <<timers, stopped, isConnected, reconnectAttempts>>
       ELSE Bot_handleConnectionError(timers)
    /\ lastOutcome' = NoOutcome
    /\ UNCHANGED <<impl, allowedGroups, interestChannels, now, marketingEnabled, groupActivities, handlers,
                   channelLog, starts, inbound, batchVars, countVars,
                   messageIntervals, lastMessageTimes, monitoring, connected, gaveUp>>

(* bot.catch, registered when start's initializeBot has returned:           *)
(* handleConnectionError.  Errors are followed for the length of a series   *)
(* of MaxBackoffs failed attempts.                                          *)
Bot_Error ==
    /\ impl = "tgbot"
    /\ starts > 0
    /\ \A f \in BagToSet(firings) : f.from # "start"
    /\ ~stopped
    /\ now - StartTime <= Bot_RECONNECT_DELAY * (2^MaxBackoffs - 1)
    /\ Bot_handleConnectionError(timers)
    /\ lastOutcome' = NoOutcome
    /\ UNCHANGED <<impl, allowedGroups, interestChannels, now, marketingEnabled, groupActivities, firings, handlers,
                   channelLog, starts, inbound, batchVars, countVars,
                   messageIntervals, lastMessageTimes, monitoring, connected, gaveUp>>

(* The reconnect timer fires: its callback waits for bot.stop().  At most   *)
(* MaxChains callbacks are followed at a time, for the length of a series   *)
(* of MaxBackoffs failed attempts.                                          *)
Bot_ReconnectFires(t) ==
    /\ impl = "tgbot"
    /\ BagIn(t, timers)
    /\ t.kind = "reconnect"
    /\ t.due <= now
    /\ BagCardinality(firings) < MaxChains
    /\ t.due - StartTime <= Bot_RECONNECT_DELAY * (2^MaxBackoffs - 1)
    /\ timers' = BagRemove(timers, t)
    /\ firings' = BagAdd(firings, [ch |-> "", pc |-> "botStop", from |-> "timer"])
    /\ lastOutcome' = NoOutcome
    /\ UNCHANGED <<impl, allowedGroups, interestChannels, clientVars, now, marketingEnabled, groupActivities,
                   handlers, channelLog, starts, inbound, batchVars, countVars>>

(* The callback's bot.stop() resolved (initializeBot is entered) or         *)
(* rejected (handleConnectionError)                                         *)
Bot_StopDone(f, ok) ==
    /\ impl = "tgbot"
    /\ BagIn(f, firings)
    /\ f.pc = "botStop"
    /\ IF ok
       THEN /\ firings' = BagAdd(BagRemove(firings, f), [f EXCEPT !.pc = "launch"])
            /\ UNCHANGED <<timers, stopped, isConnected, reconnectAttempts>>
       ELSE /\ firings' = BagRemove(firings, f)
            /\ Bot_handleConnectionError(timers)
    /\ lastOutcome' = NoOutcome
    /\ UNCHANGED <<impl, allowedGroups, interestChannels, now, marketingEnabled, groupActivities, handlers,
                   channelLog, starts, inbound, batchVars, countVars,
                   messageIntervals, lastMessageTimes, monitoring, connected, gaveUp>>

InitBot ==
    /\ impl = "tgbot"
    /\ NoClient
    /\ now = StartTime
    /\ targetGroups = {}
    /\ channelLog = [g \in TelegramGroups |-> <<>>]
    /\ marketingEnabled = FALSE
    /\ timers = EmptyBag
    /\ lastMarketingTimes = EmptyMap
    /\ groupMessageCounts = EmptyMap
    /\ isProcessingMarketing = EmptyMap
    /\ groupActivities = EmptyMap
    /\ firings = EmptyBag
    /\ handlers = EmptyBag
    /\ lastOutcome = NoOutcome
    /\ starts = 0
    /\ inbound = 0
    /\ messageBatches = EmptyMap
    /\ lastResponseTimes = EmptyMap

NextBot ==
    \/ Bot_Start
    \/ \E f \in BagToSet(firings), ok \in BOOLEAN : Bot_LaunchDone(f, ok)
    \/ \E f \in BagToSet(firings), ok \in BOOLEAN : Bot_GetMeDone(f, ok)
    \/ Bot_Error
    \/ \E t \in BagToSet(timers) : Bot_ReconnectFires(t)
    \/ \E f \in BagToSet(firings), ok \in BOOLEAN : Bot_StopDone(f, ok)
    \/ AdvanceToTimer

SpecBot == InitBot /\ [][NextBot]_vars

(* stop, called by a shutdown handler (registered when start's              *)
(* initializeBot has returned): the reconnect timer is cleared, bot.stop()  *)
(* awaited and isConnected set to false; when bot.stop() rejects, the error *)
(* is caught and logged                                                     *)
Bot_Stop(ok) ==
    /\ impl = "tgbot"
    /\ starts > 0
    /\ \A f \in BagToSet(firings) : f.from # "start"
    /\ ~stopped
    /\ timers' = Bot_clearReconnectTimeout(timers)
    /\ stopped' = TRUE
    /\ isConnected' = IF ok THEN FALSE ELSE isConnected
    /\ lastOutcome' = NoOutcome
    /\ UNCHANGED <<impl, allowedGroups, interestChannels, now, marketingEnabled,
                   groupActivities, firings, handlers, channelLog, starts, inbound,
                   batchVars, countVars, messageIntervals, lastMessageTimes,
                   monitoring, connected, gaveUp, reconnectAttempts>>

(* The client with its shutdown handlers *)
SpecShutdown == InitBot /\ [][NextBot \/ \E ok \in BOOLEAN : Bot_Stop(ok)]_vars

-----------------------------------------------------------------------------
(* Discord MessageManager of unnamed/part_007: a fixed interval of six      *)
(* hours between marketing messages, kept in lastMarketingTimes.  The       *)
(* counters channelMessageCounts and channelTimeReductions are written at   *)
(* initialization only and are left out.                                    *)

(* startMarketing and initializeChannelMarketing: the flag is set, and for  *)
(* the target channels that getChannels() has (found) the time is set to 0  *)
(* and the first timer armed after MIN_MARKETING_INTERVAL                   *)
Simple_StartMarketing(found) ==
    /\ impl = "dcsimple"
    /\ starts < MaxStarts
    /\ starts' = starts + 1
    /\ targetGroups' = {Lower(c) : c \in DiscordAllowedChannels}
    /\ marketingEnabled' = TRUE
    /\ lastMarketingTimes' = [c \in DOMAIN lastMarketingTimes \cup found |->
           IF c \in found THEN 0 ELSE lastMarketingTimes[c]]
    /\ timers' = timers (+) SetToBag(
           {[ch |-> c, due |-> now + 6 * 60 * 60 * 1000, kind |-> "marketing"] :
               c \in found})
    /\ lastOutcome' = NoOutcome
    /\ UNCHANGED <<impl, allowedGroups, interestChannels, clientVars, now, groupActivities, firings, handlers,
                   channelLog, inbound, batchVars, groupMessageCounts,
                   isProcessingMarketing>>

(* The timer's callback: with the flag set it calls sendMarketingMessage,   *)
(* which waits for getChannels()                                            *)
Simple_TimerFires(t) ==
    /\ impl = "dcsimple"
    /\ BagIn(t, timers)
    /\ t.due <= now
    /\ t.due - StartTime <= (MaxCycles + 1) * 6 * 60 * 60 * 1000
    /\ timers' = BagRemove(timers, t)
    /\ IF marketingEnabled
       THEN /\ firings' = BagAdd(firings, [ch |-> t.ch, pc |-> "verify"])
            /\ lastOutcome' = NoOutcome
       ELSE Return([ch |-> t.ch, pc |-> "verify"], "disabled")
    /\ UNCHANGED <<impl, allowedGroups, interestChannels, clientVars, now, marketingEnabled, groupActivities,
                   handlers, channelLog, starts, inbound, batchVars, countVars>>

(* getChannels() resolved with or without the channel, or rejected: the     *)
(* flag and the interval since lastMarketingTimes are tested and            *)
(* generateMarketingMessage() is awaited                                    *)
Simple_VerifyDone(f, verified) ==
    /\ impl = "dcsimple"
    /\ BagIn(f, firings)
    /\ f.pc = "verify"
    /\ LET MIN_MARKETING_INTERVAL == 6 * 60 * 60 * 1000
           lastMessageTime == GetOrZero(lastMarketingTimes, f.ch)
           timeOk == (now - lastMessageTime) >= MIN_MARKETING_INTERVAL
       IN  IF ~verified THEN Return(f, "notFound")
           ELSE IF ~marketingEnabled THEN Return(f, "disabled")
           ELSE IF ~timeOk THEN Return(f, "denied")
           ELSE Suspend(f, [f EXCEPT !.pc = "generate"])
    /\ UNCHANGED <<impl, allowedGroups, interestChannels, clientVars, now, marketingEnabled, groupActivities, timers,
                   handlers, channelLog, starts, inbound, batchVars, countVars>>

(* generateMarketingMessage() resolved with a text or with null, or threw *)
Simple_GenerateDone(f, message) ==
    /\ impl = "dcsimple"
    /\ BagIn(f, firings)
    /\ f.pc = "generate"
    /\ IF message THEN Suspend(f, [f EXCEPT !.pc = "send"])
                  ELSE Return(f, "generationFailed")
    /\ UNCHANGED <<impl, allowedGroups, interestChannels, clientVars, now, marketingEnabled, groupActivities, timers,
                   handlers, channelLog, starts, inbound, batchVars, countVars>>

(* client.sendMessage() resolved (the time is stored and the next timer     *)
(* armed) or threw                                                          *)
Simple_SendDone(f, sent) ==
    /\ impl = "dcsimple"
    /\ BagIn(f, firings)
    /\ f.pc = "send"
    /\ IF sent
       THEN /\ channelLog' = [channelLog EXCEPT ![f.ch] =
                   Append(@, BotMessage(now, "marketing", FALSE))]
            /\ lastMarketingTimes' = MapSet(lastMarketingTimes, f.ch, now)
            /\ timers' = BagAdd(timers,
                   [ch |-> f.ch, due |-> now + 6 * 60 * 60 * 1000, kind |-> "marketing"])
            /\ Return(f, "sent")
       ELSE /\ Return(f, "sendFailed")
            /\ UNCHANGED <<channelLog, lastMarketingTimes, timers>>
    /\ UNCHANGED <<impl, allowedGroups, interestChannels, clientVars, now, marketingEnabled, groupActivities,
                   handlers, starts, inbound, batchVars, groupMessageCounts,
                   isProcessingMarketing, targetGroups>>

(* A user's message arrives: handleMessage.  Either shouldRespondToMessage  *)
(* says no and updateChannelActivity is called, or a response is generated  *)
(* and, unless it is empty, sent by the client.                             *)
Simple_HandleMessage(c, shouldRespond, response) ==
    /\ impl = "dcsimple"
    /\ inbound < MaxInbound
    /\ inbound' = inbound + 1
    /\ channelLog' = [channelLog EXCEPT ![c] =
           IF shouldRespond /\ response
           THEN Append(Append(@, UserMessage(now)), BotMessage(now, "reply", FALSE))
           ELSE Append(@, UserMessage(now))]
    /\ lastMarketingTimes' =
           IF shouldRespond THEN lastMarketingTimes
           ELSE MapSet(lastMarketingTimes, c, now)
    /\ lastOutcome' = NoOutcome
    /\ UNCHANGED <<impl, allowedGroups, interestChannels, clientVars, now, marketingEnabled, groupActivities, timers,
                   firings, handlers, starts, batchVars, groupMessageCounts,
                   isProcessingMarketing, targetGroups>>

InitSimple ==
    /\ impl = "dcsimple"
    /\ NoClient
    /\ now = StartTime
    /\ targetGroups = {}
    /\ channelLog = [c \in DiscordChannels |-> <<>>]
    /\ marketingEnabled = FALSE
    /\ timers = EmptyBag
    /\ lastMarketingTimes = EmptyMap
    /\ groupMessageCounts = EmptyMap
    /\ isProcessingMarketing = EmptyMap
    /\ groupActivities = EmptyMap
    /\ firings = EmptyBag
    /\ handlers = EmptyBag
    /\ lastOutcome = NoOutcome
    /\ starts = 0
    /\ inbound = 0
    /\ messageBatches = EmptyMap
    /\ lastResponseTimes = EmptyMap

SpecSimple ==
    /\ InitSimple
    /\ [][\/ \E found \in SUBSET DiscordChannels : Simple_StartMarketing(found)
          \/ \E t \in BagToSet(timers) : Simple_TimerFires(t)
          \/ \E f \in BagToSet(firings), verified \in BOOLEAN : Simple_VerifyDone(f, verified)
          \/ \E f \in BagToSet(firings), message \in BOOLEAN : Simple_GenerateDone(f, message)
          \/ \E f \in BagToSet(firings), sent \in BOOLEAN : Simple_SendDone(f, sent)
          \/ \E c \in DiscordChannels, shouldRespond \in BOOLEAN, response \in BOOLEAN :
                 Simple_HandleMessage(c, shouldRespond, response)
          \/ AdvanceToTimer]_vars

-----------------------------------------------------------------------------
(* Properties of the Discord MessageManager *)

(* C1: in the Discord MessageManager, in every reachable state and for every  *)
(* channel, dailyMarketingCount never exceeds MAX_MESSAGES_PER_DAY.           *)
C1_DailyCountWithinMax ==
    impl = "discord" =>
        \A ch \in DOMAIN groupActivities :
            groupActivities[ch].dailyMarketingCount <= Discord_MAX_MESSAGES_PER_DAY

(* The marketing sends recorded for a channel: the bot's events in its record *)
RecordedSends(activity) ==
    SelectSeq(activity.recentMessages, LAMBDA msg : ~msg.isUser)

(* The marketing messages delivered to a group, oldest first.  In the       *)
(* manager of part_002 each of them is recorded in lastMarketingTimes as    *)
(* soon as sendMessage returns.                                             *)
DeliveredSends(log) == SelectSeq(log, LAMBDA m : m.kind = "marketing")

(* Consecutive entries of a sequence of events are at least d apart *)
Spaced(events, d) ==
    \A i \in 1..(Len(events) - 1) : events[i + 1].time - events[i].time >= d

(* C2: for every channel, any two marketing sends recorded for it are at     *)
(* least MIN_MARKETING_INTERVAL apart: in the Discord manager, and in the    *)
(* Telegram manager where the timer and handleMessage both start             *)
(* sendMarketingMessage.                                                     *)
C2_RecordedSendsSpaced ==
    /\ impl = "discord" =>
           \A ch \in DOMAIN groupActivities :
               Spaced(RecordedSends(groupActivities[ch]),
                      Discord_MIN_MARKETING_INTERVAL)
    /\ impl = "tgcounts" =>
           \A g \in DOMAIN channelLog :
               Spaced(DeliveredSends(channelLog[g]), Counts_MIN_MARKETING_INTERVAL)

(* A step in which canSendMarketingMessage returns true for channel ch: one  *)
(* more execution stands at the await that follows the check.                *)
AllowsSend(ch) ==
    \E g \in BagToSet(firings') :
        /\ g.ch = ch
        /\ g.pc = "generate"
        /\ CopiesIn(g, firings') > CopiesIn(g, firings)

(* C6: canSendMarketingMessage never returns true for a channel when less    *)
(* than MIN_MARKETING_INTERVAL has elapsed since its last marketing send, or *)
(* when its marketing sends of the day have reached MAX_MESSAGES_PER_DAY.    *)
C6_HardGates ==
    [][impl = "discord" =>
        \A ch \in DOMAIN groupActivities :
            AllowsSend(ch) =>
                /\ now - groupActivities[ch].lastMarketingTime
                       >= Discord_MIN_MARKETING_INTERVAL
                /\ groupActivities[ch].dailyMarketingCount
                       < Discord_MAX_MESSAGES_PER_DAY]_vars

(* C8: a channel that is not active gets a marketing message only when the   *)
(* last message in it is not the bot's own, so the bot's marketing message    *)
(* sent while the channel was judged inactive never directly follows another  *)
(* marketing message.                                                         *)
C8_NoBackToBackWhenInactive ==
    \A c \in DOMAIN channelLog :
        \A i \in 1..(Len(channelLog[c]) - 1) :
            ~ /\ channelLog[c][i].kind = "marketing"
              /\ channelLog[c][i + 1].kind = "marketing"
              /\ ~channelLog[c][i + 1].active

(* C9: when a firing of sendMarketingMessage ended because generation gave   *)
(* nothing or the send threw, and marketing has not been stopped, a timer for *)
(* that channel is armed.                                                     *)
C9_RearmedAfterFailure ==
    (lastOutcome.result \in {"generationFailed", "sendFailed"} /\ marketingEnabled)
        => \E t \in BagToSet(timers) : t.ch = lastOutcome.ch

(* C10: when a firing ended because canSendMarketingMessage denied the send,  *)
(* a timer for that channel is armed.                                         *)
C10_RearmedAfterDenial ==
    (lastOutcome.result = "denied" /\ marketingEnabled)
        => \E t \in BagToSet(timers) : t.ch = lastOutcome.ch

-----------------------------------------------------------------------------
(* Properties of the managers that keep groupActivities *)

(* A step taken by an execution of sendMarketingMessage *)
FiringStep == firings' # firings \/ lastOutcome'.result # "none"

(* Nothing in the step records a send for the channel *)
NoSendRecorded(ch) ==
    LET before == groupActivities[ch]
        after == groupActivities'[ch]
    IN  /\ after.lastMarketingTime = before.lastMarketingTime
        /\ RecordedSends(after) = RecordedSends(before)
        /\ "dailyMarketingCount" \in DOMAIN before =>
               after.dailyMarketingCount <= before.dailyMarketingCount

(* C3: in sendMarketingMessage (Discord and Telegram), when generation      *)
(* returns nothing or sendMessage throws, no send is recorded: every step   *)
(* of an execution other than the one that completes a send leaves the      *)
(* channel's lastMarketingTime unchanged, does not increment                *)
(* dailyMarketingCount and appends no bot event to recentMessages.          *)
C3_NoRecordOnFailure ==
    [][(FiringStep /\ lastOutcome'.result # "sent") =>
          \A ch \in DOMAIN groupActivities : NoSendRecorded(ch)]_vars

(* A firing has just failed at sendMessage on a channel that has a send on  *)
(* record.                                                                  *)
C3_Witness ==
    /\ lastOutcome.result = "sendFailed"
    /\ lastOutcome.ch \in DOMAIN groupActivities
    /\ groupActivities[lastOutcome.ch].lastMarketingTime > 0

(* The events of a record that are a user's and younger than the window *)
RecentUserEvents(activity, t, window) ==
    {i \in DOMAIN activity.recentMessages :
        /\ activity.recentMessages[i].isUser
        /\ t - activity.recentMessages[i].time < window}

-----------------------------------------------------------------------------
(* Properties of the manager of part_002 *)

(* The step in which the sendMarketingMessage call made by handleMessage for *)
(* group g returns without having sent                                       *)
TriggerFailed(g) ==
    /\ g \in DOMAIN isProcessingMarketing
    /\ isProcessingMarketing[g]
    /\ ~isProcessingMarketing'[g]
    /\ lastOutcome'.ch = g
    /\ lastOutcome'.result \in {"generationFailed", "sendFailed"}

(* C4: when handleMessage triggers marketing, lastMarketingTimes[group] is  *)
(* set and groupMessageCounts[group] is reset to 0 only if sendMessage      *)
(* succeeded for that trigger; when generation returns null or sendMessage  *)
(* throws, both stay unchanged.                                             *)
C4_RecordedOnlyOnSuccess ==
    [][\A g \in TelegramGroups :
          TriggerFailed(g) =>
              /\ lastMarketingTimes' = lastMarketingTimes
              /\ groupMessageCounts' = groupMessageCounts]_vars

-----------------------------------------------------------------------------
(* Properties of the manager of part_005 *)

(* A step in which a firing for group g evaluates canSendMarketingMessage:  *)
(* a due timer of the group is consumed while marketing is enabled          *)
EvaluatesCanSend(g) ==
    /\ marketingEnabled
    /\ \E t \in BagToSet(timers) :
           /\ t.ch = g
           /\ t.due <= now
           /\ CopiesIn(t, timers') < CopiesIn(t, timers)

(* C5: every confirmed send is recorded: whenever sendMessage has returned  *)
(* successfully for a group, lastMarketingTimes[group] has been updated     *)
(* when a later firing for the group evaluates canSendMarketingMessage,     *)
(* also when storing the response memory failed after the send.             *)
C5_ConfirmedSendsRecorded ==
    [][\A g \in TelegramGroups :
          EvaluatesCanSend(g) =>
              LET sends == DeliveredSends(channelLog[g])
              IN  \A i \in DOMAIN sends :
                      GetOrZero(lastMarketingTimes, g) >= sends[i].time]_vars

-----------------------------------------------------------------------------
(* Properties of the timer chains *)

(* C11: after a confirmed marketing send exactly one next timer is armed    *)
(* for that channel, with a delay of at least the minimum marketing         *)
(* interval of the manager.                                                 *)
C11_OneTimerAfterSend ==
    [][(lastOutcome'.result = "sent" /\ firings' # firings) =>
          LET armed == timers' (-) timers
              minimum == CASE impl = "discord" -> Discord_MIN_MARKETING_INTERVAL
                           [] impl = "telegram" -> Telegram_MIN_MARKETING_INTERVAL
                           [] impl = "tgcounts" -> Counts_MIN_MARKETING_INTERVAL
                           [] impl = "tgmanager" -> Manager_MIN_INTERVAL
                           [] OTHER -> Dialog_MIN_MARKETING_INTERVAL
          IN  /\ BagCardinality(armed) = 1
              /\ \A t \in BagToSet(armed) :
                     /\ t.ch = lastOutcome'.ch
                     /\ t.due >= now + minimum]_vars

(* C12: for each channel at most one marketing firing is pending or in      *)
(* flight at any time, also after a repeated startMarketing.                *)
C12_OneFiringPerChannel ==
    LET T == BagToSet(timers)
        F == BagToSet(firings)
    IN  /\ \A t \in T : CopiesIn(t, timers) = 1
        /\ \A f \in F : CopiesIn(f, firings) = 1
        /\ \A c \in {t.ch : t \in T} \cup {f.ch : f \in F} :
               Cardinality({t \in T : t.ch = c}) +
               Cardinality({f \in F : f.ch = c}) <= 1

-----------------------------------------------------------------------------
(* Properties of stopping *)

(* C13: stopping is idempotent: MarketingManager.stop() or                  *)
(* MessageManager.stopMarketing() called directly after itself changes      *)
(* nothing and raises no error: the state is that of a single call, with no *)
(* pending timer in messageIntervals and marketingEnabled false.            *)
C13_StopIdempotent ==
    [][(lastOutcome.result = "stopped" /\ lastOutcome'.result = "stopped") =>
          /\ UNCHANGED <<impl, allowedGroups, interestChannels, now, marketingEnabled, groupActivities, timers,
                         firings, handlers, channelLog, starts, inbound,
                         batchVars, countVars, clientVars>>
          /\ impl = "discord" => ~marketingEnabled'
          /\ impl = "tgmanager" => messageIntervals' = EmptyMap]_vars

C13_Witness ==
    /\ lastOutcome = [ch |-> "again", result |-> "stopped"]
    /\ starts > 0
    /\ firings # EmptyBag

(* C14: when MarketingManager.stop() is called while a callback for a group *)
(* is executing, no further firing for the group happens: once the callback *)
(* has finished there is no pending timer for the group until start() is    *)
(* called again.                                                            *)
C14_NoTimerAfterStop ==
    (impl = "tgmanager" /\ stopped) =>
        \A g \in TelegramGroups :
            (\A f \in BagToSet(firings) : f.ch # g) =>
                \A t \in BagToSet(timers) : t.ch # g

-----------------------------------------------------------------------------
(* Properties of the connection supervision *)

(* C15: while the transport is not connected, a marketing timer firing does *)
(* not call sendMessage and does not change the channel's quota state; it   *)
(* only re-arms the timer.                                                  *)
C15_NoSendWhileDisconnected ==
    [][~connected =>
          /\ \A f \in BagToSet(firings') :
                 f.pc = "send" => CopiesIn(f, firings') <= CopiesIn(f, firings)
          /\ \A t \in BagToSet(timers) :
                 (t.kind = "marketing" /\ CopiesIn(t, timers') < CopiesIn(t, timers)) =>
                     \E u \in BagToSet(timers') : u.kind = "marketing" /\ u.ch = t.ch]_vars

(* C19: once a reconnectWithBackoff chain has failed maxAttempts times, no  *)
(* further client.connect() attempt is made, also not by later ticks of the *)
(* connection monitor.                                                      *)
C19_NoConnectAfterGivingUp ==
    [][gaveUp =>
          /\ \A f \in BagToSet(firings') :
                 f.pc = "connect" => CopiesIn(f, firings') <= CopiesIn(f, firings)
          /\ \A t \in BagToSet(timers') :
                 t.kind = "backoff" => CopiesIn(t, timers') <= CopiesIn(t, timers)]_vars

(* C20: at any time at most one reconnectWithBackoff chain is running in    *)
(* TelegramUserClient.                                                      *)
C20_OneReconnectChain ==
    User_Chains <= 1

(* C16: the delay before a reconnection attempt never exceeds the maximum   *)
(* reconnect delay of 30 s, in reconnectWithBackoff and in                  *)
(* handleConnectionError.                                                   *)
C16_BackoffCapped ==
    \A t \in BagToSet(timers) :
        t.kind \in {"backoff", "reconnect"} => t.delay <= 30000

C18_BackoffSchedule ==
    \A t \in BagToSet(timers) :
        t.kind \in {"backoff", "reconnect"} =>
            LET k == IF t.kind = "backoff" THEN t.attempt + 1 ELSE t.attempt
                uncapped == 5000 * 2^(k - 1)
            IN  t.delay = IF uncapped < 30000 THEN uncapped ELSE 30000

-----------------------------------------------------------------------------
(* Properties of the daily quota *)

(* C21: a channel's dailyMarketingCount changes in two ways only: it is     *)
(* incremented by 1 by a confirmed send, and it is reset to 0, with         *)
(* lastDailyReset set to now, when canSendMarketingMessage runs at least    *)
(* 24 h after lastDailyReset; so resets are at least 24 h apart.            *)
C21_CountChangesOnlyBySendOrReset ==
    [][\A c \in DOMAIN groupActivities \cap DOMAIN groupActivities' :
          LET old == groupActivities[c]
              new == groupActivities'[c]
          IN  \/ /\ new.dailyMarketingCount = old.dailyMarketingCount
                 /\ new.lastDailyReset = old.lastDailyReset
              \/ /\ new.dailyMarketingCount = old.dailyMarketingCount + 1
                 /\ new.lastDailyReset = old.lastDailyReset
                 /\ lastOutcome' = [ch |-> c, result |-> "sent"]
              \/ /\ new.dailyMarketingCount = 0
                 /\ new.lastDailyReset = now
                 /\ now - old.lastDailyReset >= DAY_MS
                 /\ \E f \in BagToSet(firings') :
                        f.ch = c /\ f.pc = "fetch" /\ ~BagIn(f, firings)]_vars

(* A reset has happened in this run and a send has been counted since *)
C21_Witness ==
    /\ impl = "discord"
    /\ "general" \in DOMAIN groupActivities
    /\ groupActivities["general"].lastDailyReset > StartTime
    /\ groupActivities["general"].dailyMarketingCount = 1

(* C22: the marketing sends to a channel within any window of 24 hours are  *)
(* at most the daily maximum, whatever the reset periods are.               *)
C22_RollingDayWithinMax ==
    \A c \in DOMAIN channelLog :
        LET sends == DeliveredSends(channelLog[c])
            max == IF impl = "discord" THEN Discord_MAX_MESSAGES_PER_DAY
                   ELSE Telegram_MAX_MESSAGES_PER_DAY
        IN  \A i \in 1..Len(sends) :
                Cardinality({j \in i..Len(sends) :
                    sends[j].time - sends[i].time < DAY_MS}) <= max

-----------------------------------------------------------------------------
(* Properties of the activity history *)

(* C23: after every recording of an event for a channel, a user's message   *)
(* or the bot's own marketing send, the channel's recentMessages holds no   *)
(* event older than MESSAGE_ACTIVITY_WINDOW.                                *)
C23_HistoryPrunedOnRecording ==
    [][\A c \in DOMAIN groupActivities' :
          LET new == groupActivities'[c].recentMessages
              old == IF c \in DOMAIN groupActivities
                     THEN groupActivities[c].recentMessages ELSE <<>>
              window == IF impl = "discord" THEN Discord_MESSAGE_ACTIVITY_WINDOW
                        ELSE Telegram_MESSAGE_ACTIVITY_WINDOW
          IN  new # old => \A i \in 1..Len(new) : now - new[i].time <= window]_vars

(* C24: every inbound user message in a monitored channel is appended to    *)
(* the channel's activity history, whether or not the bot responds to it    *)
(* and whether or not it is rate-limited or held in a batch.                *)
C24_InboundAlwaysRecorded ==
    [][\A c \in DOMAIN channelLog :
          LET monitored == impl = "telegram" \/ c \in DOMAIN groupActivities
              old == IF c \in DOMAIN groupActivities
                     THEN groupActivities[c].recentMessages ELSE <<>>
          IN  (/\ impl \in {"discord", "telegram"}
               /\ inbound' = inbound + 1
               /\ channelLog'[c] # channelLog[c]
               /\ monitored)
              => /\ c \in DOMAIN groupActivities'
                 /\ groupActivities'[c].recentMessages # old
                 /\ groupActivities'[c].recentMessages # <<>>
                 /\ Last(groupActivities'[c].recentMessages)
                        = [isUser |-> TRUE, time |-> now]]_vars

(* C25: canSendMarketingMessage for a monitored channel without an activity *)
(* record gives the verdict it gives for an empty record without a prior    *)
(* send: the firing is not denied for the missing record, it goes on to     *)
(* read the channel's messages as it does with an empty record.             *)
C25_MissingRecordIsEmptyRecord ==
    [][\A t \in BagToSet(timers) :
          (/\ impl \in {"discord", "telegram"}
           /\ t.kind = "marketing"
           /\ t.due <= now
           /\ timers' = BagRemove(timers, t)
           /\ marketingEnabled
           /\ t.ch \notin DOMAIN groupActivities)
          => /\ lastOutcome'.result # "denied"
             /\ \E f \in BagToSet(firings') :
                    f.ch = t.ch /\ f.pc = "fetch" /\ ~BagIn(f, firings)]_vars

-----------------------------------------------------------------------------
(* Properties of the channels' independence *)

(* What the manager holds for the group g *)
StateOfGroup(g, activities, T, F, log, batches, responses) ==
    [activity |-> IF g \in DOMAIN activities THEN <<activities[g]>> ELSE <<>>,
     timers |-> {<<t, T[t]>> : t \in {u \in BagToSet(T) : u.ch = g}},
     firings |-> {<<f, F[f]>> : f \in {u \in BagToSet(F) : u.ch = g}},
     log |-> log[g],
     batch |-> IF g \in DOMAIN batches THEN <<batches[g]>> ELSE <<>>,
     response |-> GetOrZero(responses, g)]

(* C26: a failure in one group's initialization or firing (dialog lookup,   *)
(* quota check, generation or send) leaves the activity, quota and timers   *)
(* of every other group unchanged: their timers stay armed.                 *)
C26_FailureStaysInItsGroup ==
    [][\A g \in DOMAIN channelLog :
          LET old == StateOfGroup(g, groupActivities, timers, firings, channelLog,
                                  messageBatches, lastResponseTimes)
              new == StateOfGroup(g, groupActivities', timers', firings', channelLog',
                                  messageBatches', lastResponseTimes')
              failedElsewhere ==
                  /\ lastOutcome'.result \in
                         {"denied", "checkFailed", "generationFailed", "sendFailed"}
                  /\ lastOutcome'.ch # g
              initialTimer == [ch |-> g, due |-> now + Telegram_FirstDelay,
                               kind |-> "marketing"]
          IN  /\ failedElsewhere => new = old
              /\ starts' = starts + 1 =>
                     \/ new = old
                     \/ new = [old EXCEPT !.timers =
                            {e \in @ : e[1] # initialTimer} \cup
                            {<<initialTimer, CopiesIn(initialTimer, timers) + 1>>}]]_vars

(* A send to g1 has just failed while the timer of g2 is armed *)
C26_Witness ==
    /\ impl = "telegram"
    /\ lastOutcome = [ch |-> "g1", result |-> "sendFailed"]
    /\ \E t \in BagToSet(timers) : t.ch = "g2" /\ t.kind = "marketing"

-----------------------------------------------------------------------------
(* Properties of message handling *)

(* C27: handling an inbound user message changes no channel's               *)
(* last-marketing-send time: lastMarketingTimes and the records'            *)
(* lastMarketingTime change only by a confirmed marketing send (and are     *)
(* initialized by startMarketing).                                          *)
C27_SendTimeOnlyBySend ==
    [][inbound' = inbound + 1 =>
          /\ lastMarketingTimes' = lastMarketingTimes
          /\ \A c \in DOMAIN groupActivities \cap DOMAIN groupActivities' :
                 groupActivities'[c].lastMarketingTime
                     = groupActivities[c].lastMarketingTime]_vars

(* C28: no more than 96 marketing messages are sent to one channel or group *)
(* within one day, whatever the scheduled firings and whether or not the    *)
(* lookup of today's message count succeeds.                                *)
C28_AtMost96PerDay ==
    \A c \in DOMAIN channelLog :
        LET sends == DeliveredSends(channelLog[c])
        IN  \A i \in 1..Len(sends) :
                Cardinality({j \in 1..Len(sends) :
                    sends[j].time \div DAY_MS = sends[i].time \div DAY_MS}) <= 96

(* C29: a message is processed and answered only if its chat is on the      *)
(* configured allow-list: when a message arrives in a chat that is not on   *)
(* the list (in particular when the list is empty), the manager's state     *)
(* does not change and no reply is sent to any chat.                        *)
C29_OnlyAllowedChatsProcessed ==
    [][\A c \in DOMAIN channelLog :
          (/\ impl = "telegram"
           /\ inbound' = inbound + 1
           /\ channelLog'[c] # channelLog[c]
           /\ (IF c = "-g2" THEN "g2" ELSE c) \notin allowedGroups)
          => /\ channelLog'[c] = Append(channelLog[c], UserMessage(now))
             /\ batchVars' = batchVars
             /\ groupActivities' = groupActivities
             /\ timers' = timers]_vars

-----------------------------------------------------------------------------
(* Properties of stopping *)

(* C30: after stopMarketing() has returned (and until marketing is started  *)
(* again), no timer firing and no inbound message starts a new marketing    *)
(* send for any group: the executions of sendMarketingMessage in flight     *)
(* only proceed or end.                                                     *)
C30_NoSendStartsAfterStop ==
    [][(stopped /\ ~marketingEnabled /\ ~marketingEnabled')
          => \A f \in BagToSet(firings') :
                 f.pc = "generate" => CopiesIn(f, firings') <= CopiesIn(f, firings)]_vars

-----------------------------------------------------------------------------
(* Properties of retrying *)

(* C31: a firing of MarketingManager.sendMarketingMessage makes at most     *)
(* maxRetries = 3 attempts, ends with its first successful send and always  *)
(* terminates; when it has ended, whatever the outcome (sent, daily limit   *)
(* reached, no message, three failures), exactly one next timer is armed    *)
(* for its group.                                                           *)
C31_BoundedRetriesThenOneTimer ==
    /\ [](\A f \in BagToSet(firings) : impl = "tgmanager" => f.attempt \in 0..2)
    /\ [][impl = "tgmanager" =>
            /\ \A g \in DOMAIN channelLog :
                   channelLog'[g] # channelLog[g]
                       => lastOutcome' = [ch |-> g, result |-> "sent"]
            /\ lastOutcome'.result \in {"sent", "limitReached", "noMessage", "failed"}
                   => LET next == {t \in BagToSet(timers') :
                                       t.ch = lastOutcome'.ch /\ t.kind = "marketing"}
                      IN  /\ BagCardinality(firings') = BagCardinality(firings) - 1
                          /\ Cardinality(next) = 1
                          /\ \A t \in next : CopiesIn(t, timers') = 1]_vars
    /\ (firings # EmptyBag) ~> (firings = EmptyBag)

(* A firing has ended after three failed attempts and the next timer is armed *)
C31_Witness ==
    /\ impl = "tgmanager"
    /\ lastOutcome = [ch |-> "g1", result |-> "failed"]
    /\ \E t \in BagToSet(timers) : t.ch = "g1" /\ t.kind = "marketing"

-----------------------------------------------------------------------------
(* Properties of concurrent executions *)

(* C32: in the manager with the isProcessingMarketing lock, at most one     *)
(* sendMarketingMessage execution is in flight per group at any time,       *)
(* whether handleMessage or the marketing timer started it, and the lock of *)
(* a group is held only while an execution that handleMessage started for   *)
(* it is in flight.                                                         *)
C32_OneSendInFlightPerGroup ==
    impl = "tgcounts" =>
        \A g \in DOMAIN channelLog :
            LET inFlight == {f \in BagToSet(firings) : f.ch = g}
            IN  /\ Cardinality(inFlight) <= 1
                /\ \A f \in inFlight : CopiesIn(f, firings) = 1
                /\ (g \in DOMAIN isProcessingMarketing /\ isProcessingMarketing[g])
                       => \E f \in inFlight : f.origin = "handler"

(* C33: when a message fills a chat's batch, the batched messages are       *)
(* handled by exactly one handleMessageInternal invocation, and when an     *)
(* invocation made by processBatch is over, also by a failure, the chat's   *)
(* batch is empty.                                                          *)
C33_OneInvocationPerBatch ==
    [][impl = "telegram" =>
          /\ inbound' = inbound + 1
                 => BagCardinality(handlers') <= BagCardinality(handlers) + 1
          /\ \A h \in BagToSet(handlers) :
                 (/\ h.from = "processBatch"
                  /\ BagCardinality(handlers') < BagCardinality(handlers)
                  /\ CopiesIn(h, handlers') < CopiesIn(h, handlers))
                     => messageBatches'[h.ch] = <<>>]_vars

(* C34: two responses sent to the same chat are never less than             *)
(* MIN_MESSAGE_INTERVAL apart, also when messages arrive while a response   *)
(* is being generated.                                                      *)
C34_ResponsesSpaced ==
    impl = "telegram" =>
        \A c \in DOMAIN channelLog :
            Spaced(SelectSeq(channelLog[c], LAMBDA m : m.kind = "reply"),
                   Telegram_MIN_MESSAGE_INTERVAL)

-----------------------------------------------------------------------------
(* Properties of the conversation context *)

(* C35: after every update of a channel's conversation context the stored   *)
(* list has at most 10 entries, and they are the entries added last, in the *)
(* order in which they were added: entry i of the list is push number       *)
(* 2 * updates - Len + i, the pushes being each update's user message and   *)
(* then its response.                                                       *)
C35_ContextIsLastTen ==
    \A c \in DOMAIN interestChannels :
        LET messages == interestChannels[c].messages
            first == 2 * inbound - Len(messages)
        IN  /\ Len(messages) <= 10
            /\ Len(messages) = IF 2 * inbound > 10 THEN 10 ELSE 2 * inbound
            /\ \A i \in 1..Len(messages) :
                   /\ messages[i].text = (first + i + 1) \div 2
                   /\ (messages[i].userName = "bot") <=> ((first + i) % 2 = 0)

(* The context has been trimmed: more than five messages answered *)
C35_Witness ==
    /\ inbound > 5
    /\ \E c \in DOMAIN interestChannels : Len(interestChannels[c].messages) = 10

-----------------------------------------------------------------------------
(* Properties of the TelegramClient's reconnection limit *)

(* C36: reconnectAttempts always stays within 0..MAX_RECONNECT_ATTEMPTS,    *)
(* and when a connection error occurs (bot.catch, or a rejected launch,     *)
(* getMe or bot.stop of a reconnection) while reconnectAttempts equals      *)
(* MAX_RECONNECT_ATTEMPTS, the bot is stopped and no reconnect timer is     *)
(* left armed.                                                              *)
C36_AttemptsWithinLimit ==
    /\ [](impl = "tgbot" => reconnectAttempts \in 0..Bot_MAX_RECONNECT_ATTEMPTS)
    /\ [][(/\ impl = "tgbot"
           /\ reconnectAttempts = Bot_MAX_RECONNECT_ATTEMPTS
           /\ \/ Bot_Error
              \/ \E f \in BagToSet(firings) :
                     \/ Bot_LaunchDone(f, FALSE)
                     \/ Bot_GetMeDone(f, FALSE)
                     \/ Bot_StopDone(f, FALSE))
          => /\ stopped'
             /\ ~isConnected'
             /\ reconnectAttempts' = reconnectAttempts
             /\ \A t \in BagToSet(timers') : t.kind # "reconnect"]_vars

(* A connection error at the limit has stopped the bot *)
C36_Witness ==
    /\ impl = "tgbot"
    /\ reconnectAttempts = Bot_MAX_RECONNECT_ATTEMPTS
    /\ stopped
    /\ ~isConnected

(* C37: after stop() has completed the bot is not relaunched: isConnected   *)
(* does not become true, and no reconnect callback, pending or running when *)
(* stop() was called, goes on to bot.launch().                              *)
C37_NoRelaunchAfterStop ==
    [][(/\ impl = "tgbot"
        /\ stopped
        /\ \A f \in BagToSet(firings) : f.from # "start")
          => /\ isConnected' => isConnected
             /\ \A f \in BagToSet(firings') :
                    f.pc = "launch" => CopiesIn(f, firings') <= CopiesIn(f, firings)]_vars

(***************************************************************************)
(* Properties of the activity record's key                                 *)
(***************************************************************************)

(* C38: in the Discord MessageManager a user message received in a          *)
(* monitored channel C, and not answered, is appended to the activity       *)
(* record that isGroupActive and canSendMarketingMessage consult for C when *)
(* the timer fires, which is the record under C's lower-cased name; this    *)
(* for every channel name, names with upper-case letters included.          *)
C38_MessageRecordedForTimer ==
    [][\A c \in DOMAIN channelLog, response \in BOOLEAN :
          (/\ Discord_HandleMessage(c, FALSE, response)
           /\ Lower(c) \in DOMAIN groupActivities)
             => groupActivities'[Lower(c)].recentMessages =
                    Append(groupActivities[Lower(c)].recentMessages,
                           [isUser |-> TRUE, time |-> now])]_vars

(***************************************************************************)
(* Properties of the target set                                            *)
(***************************************************************************)

(* C39: a marketing message is only ever sent to a channel or group of the  *)
(* configured target set: every marketing message in a chat's log, and      *)
(* every sendMarketingMessage that has reached its sendMessage call, is for *)
(* a member of targetGroups (Telegram) or of the allowed channels (Discord, *)
(* by the lower-cased name).                                                *)
C39_MarketingOnlyToTargets ==
    LET isTarget(c) == IF impl \in {"discord", "dcsimple"}
                       THEN Lower(c) \in DiscordAllowedChannels
                       ELSE c \in targetGroups
    IN  /\ \A c \in DOMAIN channelLog : \A i \in 1..Len(channelLog[c]) :
               (channelLog[c][i].author = "bot" /\ channelLog[c][i].kind = "marketing")
                   => isTarget(c)
        /\ \A f \in BagToSet(firings) : f.pc = "send" => isTarget(f.ch)

(* A marketing message has been sent to the allowed channel of a guild that *)
(* also has a tracked channel outside the allow-list                        *)
C39_Witness ==
    /\ impl = "discord"
    /\ \E c \in DOMAIN channelLog :
           /\ Lower(c) \notin DiscordAllowedChannels
           /\ Lower(c) \in DOMAIN groupActivities
    /\ \E c \in DOMAIN channelLog :
           /\ channelLog[c] # <<>>
           /\ Last(channelLog[c]).author = "bot"
           /\ Last(channelLog[c]).kind = "marketing"

====
